----------------------------- MODULE LoginClient -----------------------------
(***************************************************************************)
(* The login client (capauth/login.py): do_login() against a verification   *)
(* service, and the token files that load_cached_token() reads.  Processes  *)
(* share the profile, the keyring and the token files without a lock; the   *)
(* profile may be edited while a login is under way, replies may be lost,   *)
(* and a process may die between any two steps.                             *)
(***************************************************************************)
EXTENDS Integers, FiniteSets

CONSTANTS
    Lost,
    Half,                \* a file that was cut short, or has two writers' texts in it
    Nameless,            \* a profile.yml with claims and no fingerprint
    Client, Account,     \* processes, fingerprints
    profile, yml0, keys0, \* the fingerprint in profile.json, whose key is in a file too,
                         \* profile.yml at first, and the keys in the keyring at first
    Url, host_of,        \* services, and the host name of each
    Out,                 \* what --output-token names
    EXPIRES_IN,
    MaxLoginTime, MaxLogins, MaxProfileEdits \* bounds

Host_names == {host_of[u] : u \in Url}
\* Token files: the cache has one for each host.
TokenPath == Host_names \cup Out
\* The fingerprint that profile.yml names; Lost when it is missing or cannot be parsed.
ProfileYml == Account \cup {Nameless, Lost}
\* With the profile.yml its claims are from, which is Lost for none, whether its lifetime is
\* told, and as history: whether profile.yml changed between the reading of the identity and
\* that of the claims, and whether the key it named was not to be had.
LoginToken == [sub : Account, url : Url, iat : Nat, expires : BOOLEAN, claims : ProfileYml,
               edited : BOOLEAN, fallback : BOOLEAN]
TokenFile == [token : LoginToken, cached_at : Nat]
Attempt == [step : {"fetch", "sign", "post", "reply", "write"}, fp : Account, by : {"gpg", "file"},
            output : Out \cup {Lost}, file : TokenFile]

ASSUME ClientAssumption ==
    /\ profile \in Account /\ yml0 \in ProfileYml /\ keys0 \subseteq Account
    /\ {Lost, Nameless} \cap Account = {} /\ Nameless # Lost
    /\ Lost \notin Out /\ Out \cap Host_names = {}
    /\ {EXPIRES_IN, MaxLoginTime, MaxLogins, MaxProfileEdits} \subseteq Nat

VARIABLES
    login_time,
    profile_yml,          \* what profile.yml names
    gpg_keys,             \* fingerprints with a secret key in the keyring
    login,                \* of each process: its do_login(), or Lost
    granted,              \* history: tokens that a service granted
    token_file,           \* by path: the file, or Half, or Lost
    two_writers,              \* token files that a second process opened before the first was done
    handed,               \* what load_cached_token() handed out last, or Lost
    last_login,           \* history: by path, the token of the login that was last to write it
    logins, profile_edits \* counters

login_vars == <<login_time, profile_yml, gpg_keys, login, granted, token_file, two_writers, handed,
                last_login, logins, profile_edits>>

LoginInit ==
    /\ login_time = 0
    /\ profile_yml = yml0 /\ gpg_keys = keys0
    /\ login = [c \in Client |-> Lost] /\ granted = {}
    /\ token_file = [p \in TokenPath |-> Lost] /\ two_writers = {} /\ handed = Lost
    /\ last_login = [p \in TokenPath |-> Lost]
    /\ logins = 0 /\ profile_edits = 0

-----------------------------------------------------------------------------
\* The fingerprint that profile.yml names, or else profile.json.
named == IF profile_yml \in Account THEN profile_yml ELSE profile

\* A faulty variant asks profile.json first.
load_identity_of_profile ==
    [fp |-> profile, by |-> IF profile \in gpg_keys THEN "gpg" ELSE "file"]

\* _load_identity(): the named key if the keyring has it, or else the profile's, from the
\* keyring or from its file.  When the keyring is not to be used, or a key cannot be
\* exported, that is as if the keyring did not have it.
load_identity ==
    IF named \in gpg_keys THEN [fp |-> named, by |-> "gpg"]
    ELSE [fp |-> profile, by |-> IF profile \in gpg_keys THEN "gpg" ELSE "file"]

\* A faulty variant keeps one file for all.
file_of_all(u, out) == IF out # Lost THEN out ELSE CHOOSE h \in Host_names : TRUE

\* tokens.json is kept by host name: _resolve_urls() drops port and path for it.  With
\* --output-token it is that file, and the cache stays as it is.
file_of(u, out) == IF out # Lost THEN out ELSE host_of[u]
path_of(a) == file_of(a.file.token.url, a.output)

\* do_login() up to the first request.
do_login(c, u, out) ==
    /\ login[c] = Lost /\ logins < MaxLogins
    /\ logins' = logins + 1
    /\ LET id == load_identity IN
       login' = [login EXCEPT ![c] =
          [step |-> "fetch", fp |-> id.fp, by |-> id.by, output |-> out,
           file |-> [token |-> [sub |-> id.fp, url |-> u, iat |-> 0, expires |-> FALSE,
                                claims |-> Lost, edited |-> FALSE,
                                fallback |-> named \notin gpg_keys \cup {profile}], cached_at |-> 0]]]
    /\ UNCHANGED <<login_time, profile_yml, gpg_keys, granted, token_file, two_writers, handed,
                   last_login, profile_edits>>

At(c, step) == login[c] # Lost /\ login[c].step = step
Proceed(c, to) == login' = [login EXCEPT ![c] = to]

\* _fetch_challenge(), and the checks that the reply echoes this client's nonce and bears
\* the signature of the key it brings, if it brings one.
fetch_challenge(c) ==
    /\ At(c, "fetch")
    /\ Proceed(c, [login[c] EXCEPT !.step = "sign"])
    /\ UNCHANGED <<login_time, profile_yml, gpg_keys, granted, token_file, two_writers, handed,
                   last_login, logins, profile_edits>>

\* _load_claims() reads profile.yml again, of whoever it is by now; none are sent when that
\* is asked for, or when the file has none for the service.
load_claims(none) == IF none THEN Lost ELSE profile_yml

\* The nonce and the claims are signed with the key that was loaded.
sign(c, none) ==
    /\ At(c, "sign")
    /\ login[c].by = "gpg" => login[c].fp \in gpg_keys
    /\ Proceed(c, [login[c] EXCEPT !.step = "post", !.file.token.claims = load_claims(none)])
    /\ UNCHANGED <<login_time, profile_yml, gpg_keys, granted, token_file, two_writers, handed,
                   last_login, logins, profile_edits>>

\* _post_response(): the service grants a token, and may tell how long it is good for.
post_response(c, told) ==
    /\ At(c, "post")
    /\ LET token == [login[c].file.token EXCEPT !.iat = login_time, !.expires = told] IN
       /\ Proceed(c, [login[c] EXCEPT !.step = "reply", !.file.token = token])
       /\ granted' = granted \cup {token}
    /\ UNCHANGED <<login_time, profile_yml, gpg_keys, token_file, two_writers, handed, last_login,
                   logins, profile_edits>>

Writing(p) == {c \in Client : At(c, "write") /\ path_of(login[c]) = p}

\* _cache_tokens() when the reply is there: the time is put in and the file opened,
cache_tokens(c) ==
    /\ At(c, "reply")
    /\ Proceed(c, [login[c] EXCEPT !.step = "write", !.file.cached_at = login_time])
    /\ LET p == path_of(login[c]) IN
       /\ token_file' = [token_file EXCEPT ![p] = Half]
       /\ two_writers' = IF Writing(p) = {} THEN two_writers \ {p} ELSE two_writers \cup {p}
    /\ UNCHANGED <<login_time, profile_yml, gpg_keys, granted, handed, last_login, logins,
                   profile_edits>>

\* and then written, over what another has written that opened it too.
WriteTokens(c, mixed) ==
    /\ At(c, "write")
    /\ LET p == path_of(login[c]) IN
       /\ mixed => p \in two_writers
       /\ token_file' = [token_file EXCEPT ![p] = IF mixed THEN Half ELSE login[c].file]
       /\ last_login' = [last_login EXCEPT ![p] = login[c].file.token]
    /\ Proceed(c, Lost)
    /\ UNCHANGED <<login_time, profile_yml, gpg_keys, granted, two_writers, handed, logins, profile_edits>>

\* A request, a check or a signature fails and do_login() raises; or the process dies.
GiveUp(c) ==
    /\ login[c] # Lost
    /\ Proceed(c, Lost)
    /\ UNCHANGED <<login_time, profile_yml, gpg_keys, granted, token_file, two_writers, handed,
                   last_login, logins, profile_edits>>

\* What load_cached_token() takes to be good still: a token with no lifetime for ever.
unexpired(f) == f.token.expires => login_time < f.cached_at + EXPIRES_IN

\* load_cached_token(); None when there is no file or it cannot be parsed.
load_cached_token(u) ==
    /\ LET f == token_file[file_of(u, Lost)] IN
       handed' = IF f \in {Lost, Half} \/ ~unexpired(f) THEN Lost
                 ELSE [host |-> host_of[u], file |-> f, last |-> last_login[host_of[u]]]
    /\ handed' # handed
    /\ UNCHANGED <<login_time, profile_yml, gpg_keys, login, granted, token_file, two_writers,
                   last_login, logins, profile_edits>>

Edit ==
    /\ profile_edits < MaxProfileEdits
    /\ profile_edits' = profile_edits + 1
    /\ UNCHANGED <<login_time, granted, token_file, two_writers, handed, last_login, logins>>

\* The user edits profile.yml, or moves a key in or out of the keyring.
EditProfile(yml) ==
    /\ Edit /\ yml # profile_yml
    /\ profile_yml' = yml
    /\ login' = [c \in Client |-> IF At(c, "fetch") \/ At(c, "sign")
                                  THEN [login[c] EXCEPT !.file.token.edited = TRUE] ELSE login[c]]
    /\ UNCHANGED gpg_keys

MoveKey(fp) ==
    /\ Edit
    /\ gpg_keys' = IF fp \in gpg_keys THEN gpg_keys \ {fp} ELSE gpg_keys \cup {fp}
    /\ UNCHANGED <<profile_yml, login>>

LoginTick ==
    /\ login_time < MaxLoginTime
    /\ login_time' = login_time + 1
    /\ UNCHANGED <<profile_yml, gpg_keys, login, granted, token_file, two_writers, handed, last_login,
                   logins, profile_edits>>

LoginNext ==
    \/ \E c \in Client :
          \/ \E u \in Url, out \in Out \cup {Lost} : do_login(c, u, out)
          \/ \E b \in BOOLEAN : sign(c, b) \/ post_response(c, b) \/ WriteTokens(c, b)
          \/ fetch_challenge(c) \/ cache_tokens(c) \/ GiveUp(c)
    \/ \E u \in Url : load_cached_token(u)
    \/ \E y \in ProfileYml : EditProfile(y)
    \/ \E a \in Account : MoveKey(a)
    \/ LoginTick

-----------------------------------------------------------------------------
LoginTypeOK ==
    /\ login_time \in Nat /\ profile_yml \in ProfileYml /\ gpg_keys \subseteq Account
    /\ login \in [Client -> Attempt \cup {Lost}] /\ granted \subseteq LoginToken
    /\ token_file \in [TokenPath -> TokenFile \cup {Lost, Half}]
    /\ last_login \in [TokenPath -> LoginToken \cup {Lost}]

\* No login claims for itself what a profile.yml says that names another identity, unless the
\* key that profile.yml names was not to be had, so that the profile's own was used, or
\* profile.yml changed after the identity was read and before the claims were.  Keys that come
\* and go and edits before or after do no harm.
ClaimsAreOwn ==
    \A g \in granted : g.claims \in {Lost, Nameless, g.sub} \/ g.fallback \/ g.edited

\* What load_cached_token() hands out is from the login to that host that was last to write
\* the cache, whichever processes wrote it at once, died or used --output-token: not what
\* another host granted, nor what a process that died or a request that failed left behind.
\* A later login with --output-token leaves it as it is.
HandedIsLastLogin ==
    handed # Lost =>
        /\ host_of[handed.file.token.url] = handed.host
        /\ handed.file.token = handed.last

\* A login is one identity's, and the token that is handed out later is the one it got: no
\* login sends what another's profile says, but for a key that is lost or an edit meanwhile,
\* and the cache follows the logins that use it.
LoginIsOfOneIdentity == ClaimsAreOwn /\ HandedIsLastLogin
=============================================================================
