--------------------------- MODULE ModuleRegistry ---------------------------
(***************************************************************************)
(* Signed module manifests and the shell registry (capauth/manifest.py and  *)
(* `capauth manifest` of cli.py).  modules.json is read whole, changed and  *)
(* written in place; nothing orders processes, and a crash while it is      *)
(* written leaves a file that no command accepts.  `manifest verify-all`    *)
(* loads the registry, then reads each manifest and its signature, and any  *)
(* of them may be replaced in between.  It takes a signature by any key that*)
(* gpg finds good unless it is told whom to expect.                         *)
(***************************************************************************)
EXTENDS Integers, FiniteSets

CONSTANTS
    Absent,               \* no file, or a file that is no manifest; no signature
    Broken,               \* a registry that cannot be read
    Shell, Path, Module,  \* processes, names of manifest and signature files, module ids
    Key,                  \* keys that gpg has and that are neither revoked nor expired
    Signer, Anyone,       \* what --expected-signer says, and its being left out
    keys_named,           \* keys whose fingerprint is a signer's text, ends with it or is its end
    MaxCommands, MaxEdits \* bounds

\* A manifest: its id, and whether its bytes are the canonical ones.
Manifest == [id : Module, canonical : BOOLEAN]
Signature == [key : Key, over : Manifest]
Entry == [path : Path, sig : Path, enabled : BOOLEAN]
Registry == [Module -> Entry \cup {Absent}]
Command == [doc : Registry, module : Module, entry : Entry \cup {Absent}]
\* The expected signer, the enabled modules, their entries still to be verified, the
\* manifest that was read for one of them, the manifests that verified, and the number of
\* failures; and as history, the modules that commands had left enabled.
Item == [module : Module, path : Path, sig : Path]
Listing == [expected : Signer \cup {Anyone}, asked : SUBSET Module, due : SUBSET Module,
            left : SUBSET Item, reading : Item \cup {Absent}, body : Manifest \cup {Absent},
            verified : SUBSET [module : Module, body : Manifest], failures : Nat]

ASSUME ModuleAssumption ==
    /\ keys_named \in [Signer -> SUBSET Key] /\ Anyone \notin Signer
    /\ Absent \notin Item /\ {MaxCommands, MaxEdits} \subseteq Nat

VARIABLES
    manifests, signatures, \* the files of each path
    registry,              \* modules.json
    command,               \* of each process: what it will save, and what that changes
    saving,                \* processes that opened the file for writing
    listing,               \* verify-all under way or done, or Absent
    meant,                 \* history: what the completed commands add up to
    signed,                \* history: the signatures that were made
    overlap,               \* history: one command saved between another's load and save
    crashed,               \* history: a process died while it saved
    commands, edits        \* counters

mod_vars == <<manifests, signatures, registry, command, saving, listing, meant, signed, overlap, crashed,
              commands, edits>>

NoModules == [m \in Module |-> Absent]

\* canonical_manifest_bytes()
canonical_form(body) == [body EXCEPT !.canonical = TRUE]

ModInit ==
    /\ manifests = [p \in Path |-> Absent] /\ signatures = [p \in Path |-> Absent]
    /\ registry = NoModules /\ meant = NoModules
    /\ command = [s \in Shell |-> Absent] /\ saving = {}
    /\ listing = Absent /\ signed = {}
    /\ overlap = FALSE /\ crashed = FALSE
    /\ commands = 0 /\ edits = 0

-----------------------------------------------------------------------------
\* A vendor writes a manifest, or removes it.
Publish(p, body) ==
    /\ edits < MaxEdits
    /\ edits' = edits + 1
    /\ manifests' = [manifests EXCEPT ![p] = body] /\ manifests' # manifests
    /\ UNCHANGED <<signatures, registry, command, saving, listing, meant, signed, overlap, crashed, commands>>

\* `manifest sign`: the bytes as they are, which must be canonical unless allowed
\* otherwise, to the manifest's signature file or to another.
manifest_sign(p, output, key, allow_noncanonical) ==
    /\ edits < MaxEdits
    /\ edits' = edits + 1
    /\ manifests[p] # Absent
    /\ manifests[p].canonical \/ allow_noncanonical
    /\ LET sig == [key |-> key, over |-> manifests[p]]
       IN signatures' = [signatures EXCEPT ![output] = sig] /\ signed' = signed \cup {sig}
    /\ UNCHANGED <<manifests, registry, command, saving, listing, meant, overlap, crashed, commands>>

\* load_registry() raises when the file cannot be read; a faulty variant starts anew.
load_registry_or_empty == {IF registry = Broken THEN NoModules ELSE registry}
load_registry == {registry} \ {Broken}

\* A command that changes the registry, up to save_registry().
Start(s, doc, m, entry) ==
    /\ command[s] = Absent /\ commands < MaxCommands
    /\ commands' = commands + 1
    /\ command' = [command EXCEPT ![s] = [doc |-> [doc EXCEPT ![m] = entry], module |-> m, entry |-> entry]]
    /\ UNCHANGED <<manifests, signatures, registry, saving, listing, meant, signed, overlap, crashed, edits>>

\* register_manifest(): the id is the manifest's own; an entry it has is replaced.
register_manifest(s, p, sig, enabled) ==
    /\ manifests[p] # Absent
    /\ \E doc \in load_registry :
          Start(s, doc, manifests[p].id, [path |-> p, sig |-> sig, enabled |-> enabled])

unregister_manifest(s, m) ==
    \E doc \in load_registry : doc[m] # Absent /\ Start(s, doc, m, Absent)

set_module_enabled(s, m, enabled) ==
    \E doc \in load_registry : doc[m] # Absent /\ Start(s, doc, m, [doc[m] EXCEPT !.enabled = enabled])

\* save_registry(): write_text() empties the file first.
Truncate(s) ==
    /\ command[s] # Absent /\ s \notin saving
    /\ saving' = saving \cup {s}
    /\ registry' = Broken
    /\ UNCHANGED <<manifests, signatures, command, listing, meant, signed, overlap, crashed, commands, edits>>

save_registry(s) ==
    /\ s \in saving
    /\ registry' = command[s].doc
    /\ meant' = [meant EXCEPT ![command[s].module] = command[s].entry]
    /\ command' = [command EXCEPT ![s] = Absent] /\ saving' = saving \ {s}
    /\ overlap' = (overlap \/ \E t \in Shell \ {s} : command[t] # Absent)
    /\ UNCHANGED <<manifests, signatures, listing, signed, crashed, commands, edits>>

\* A process dies; one that was saving leaves the file as it is.
Die(s) ==
    /\ command[s] # Absent
    /\ command' = [command EXCEPT ![s] = Absent] /\ saving' = saving \ {s}
    /\ crashed' = (crashed \/ s \in saving)
    /\ overlap' = (overlap \/ \E t \in Shell \ {s} : command[t] # Absent)
    /\ UNCHANGED <<manifests, signatures, registry, listing, meant, signed, commands, edits>>

-----------------------------------------------------------------------------
\* A faulty variant does not look at who signed.
verify_manifest_any(body, sig, expected) == sig # Absent /\ sig.over = body

\* The keys a verification takes signatures of.
expected_keys(expected) == IF expected = Anyone THEN Key ELSE keys_named[expected]

\* verify_manifest(): a good signature over these bytes, by the expected signer if one is
\* expected.
verify_manifest(body, sig, expected) ==
    sig # Absent /\ sig.over = body /\ sig.key \in expected_keys(expected)

\* `manifest verify-all` with list_registered(): the registry first,
enabled_in(doc) == {m \in Module : doc[m] # Absent /\ doc[m].enabled}

manifest_verify_all(expected) ==
    /\ \E doc \in load_registry :
          listing' = [expected |-> expected, asked |-> enabled_in(doc), due |-> enabled_in(meant),
                      left |-> {[module |-> m, path |-> doc[m].path, sig |-> doc[m].sig] : m \in enabled_in(doc)},
                      reading |-> Absent, body |-> Absent, verified |-> {}, failures |-> 0]
    /\ UNCHANGED <<manifests, signatures, registry, command, saving, meant, signed, overlap, crashed, commands, edits>>

\* A faulty variant passes over an entry whose manifest is gone.
missing_manifest_skipped(l, e) == [l EXCEPT !.left = @ \ {e}]

\* An entry that has no manifest to read is a failure.
missing_manifest(l, e) == [l EXCEPT !.left = @ \ {e}, !.failures = @ + 1]

\* then, by _verify_entry_signature(), the manifest of each entry,
ReadManifest(e) ==
    /\ listing # Absent /\ listing.reading = Absent /\ e \in listing.left
    /\ listing' = IF manifests[e.path] = Absent
                  THEN missing_manifest(listing, e)
                  ELSE [listing EXCEPT !.left = @ \ {e}, !.reading = e,
                                       !.body = canonical_form(manifests[e.path])]
    /\ UNCHANGED <<manifests, signatures, registry, command, saving, meant, signed, overlap, crashed, commands, edits>>

\* and its signature, over the canonical form of what was read.
ReadSignature ==
    /\ listing # Absent /\ listing.reading # Absent
    /\ listing' =
         LET done == [listing EXCEPT !.reading = Absent, !.body = Absent] IN
         IF verify_manifest(listing.body, signatures[listing.reading.sig], listing.expected)
         THEN [done EXCEPT !.verified = @ \cup {[module |-> listing.reading.module, body |-> listing.body]}]
         ELSE [done EXCEPT !.failures = @ + 1]
    /\ UNCHANGED <<manifests, signatures, registry, command, saving, meant, signed, overlap, crashed, commands, edits>>

ModNext ==
    \/ \E p \in Path, body \in Manifest \cup {Absent} : Publish(p, body)
    \/ \E p, output \in Path, k \in Key, b \in BOOLEAN : manifest_sign(p, output, k, b)
    \/ \E s \in Shell :
          \/ \E p, sig \in Path, b \in BOOLEAN : register_manifest(s, p, sig, b)
          \/ \E m \in Module : unregister_manifest(s, m)
          \/ \E m \in Module, b \in BOOLEAN : set_module_enabled(s, m, b)
          \/ Truncate(s) \/ save_registry(s) \/ Die(s)
    \/ \E expected \in Signer \cup {Anyone} : manifest_verify_all(expected)
    \/ \E e \in Item : ReadManifest(e)
    \/ ReadSignature

-----------------------------------------------------------------------------
ModTypeOK ==
    /\ manifests \in [Path -> Manifest \cup {Absent}] /\ signatures \in [Path -> Signature \cup {Absent}]
    /\ registry \in Registry \cup {Broken} /\ meant \in Registry
    /\ command \in [Shell -> Command \cup {Absent}] /\ saving \subseteq Shell
    /\ listing # Absent => listing \in Listing
    /\ signed \subseteq Signature /\ overlap \in BOOLEAN /\ crashed \in BOOLEAN

\* A module is in the registry, with the path and the flag it was given, until a command
\* that is about it changes that: a file that a crash left half written is refused by every
\* command and never written over.  (Not claimed of commands that overlap.)
RegistryAsMeant ==
    ~overlap => registry = meant \/ (registry = Broken /\ (saving # {} \/ crashed))

\* When verify-all succeeds, each module that the registry had as enabled has been read as
\* something whose canonical form the expected signer signed, or any key when none was
\* expected, although manifests and signatures are replaced while it reads; and unless
\* commands overlapped, these are all the modules that commands had left enabled.
VerifyAllIsSound ==
    listing # Absent /\ listing.left = {} /\ listing.reading = Absent /\ listing.failures = 0 =>
        /\ \A m \in listing.asked : \E v \in listing.verified, sig \in signed :
              v.module = m /\ sig.over = v.body /\ sig.key \in expected_keys(listing.expected)
        /\ overlap \/ listing.due = listing.asked

\* What verify-all vouches for is what was registered and signed: the registry is what the
\* commands made it, and every module in it was read as something that was signed.
ModulesAreVouchedFor == RegistryAsMeant /\ VerifyAllIsSound
=============================================================================
