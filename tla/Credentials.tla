------------------------------- MODULE Credentials -------------------------------
(***************************************************************************)
(* The registry credentials of a build (authProvider).  While the solve     *)
(* runs, buildkitd asks the client's session for the credentials of a       *)
(* registry, from several goroutines at once; the session answers from a    *)
(* Kubernetes Secret that the first answer caches.  A lookup that fails     *)
(* leaves a hint for the error Build returns when a registry refuses.       *)
(* Nothing here is locked: a pointer is read and written as a whole, a      *)
(* string as two words.                                                     *)
(***************************************************************************)
EXTENDS Naturals, FiniteSets

CONSTANTS
    Requests,   \* calls of Credentials
    MaxChanges, \* bound: changes of the Secret by its users
    MaxFaults   \* bound: lookups that fail although the Secret may be there

ASSUME CredentialsAssumption == MaxChanges \in Nat /\ MaxFaults \in Nat

Hosts == {"registry-1.docker.io", "other"}

\* Mutant of Key: the host is taken as it is.
KeyAsIs(h) == h

\* A registry is asked for by its host; Docker's hub has its entry elsewhere.
Key(h) == IF h = "registry-1.docker.io" THEN "https://index.docker.io/v1/" ELSE h

\* An entry of the Secret: user name and password, the two encoded together,
\* an identity token
Entries == [login : BOOLEAN, auth : {"none", "valid", "invalid"}, token : BOOLEAN]

NoEntry == [login |-> FALSE, auth |-> "none", token |-> FALSE]

\* What the API server answers: no Secret, one without the data key or with
\* something else under it, or one with an entry; or the call fails
Bare(kind) == [kind |-> kind, key |-> "other", entry |-> NoEntry]
Answers == {Bare("absent"), Bare("malformed")} \cup
           [kind : {"registry"}, key : {"https://index.docker.io/v1/", "other"}, entry : Entries]
Nil == Bare("nil")

Nothing == "nothing"
HintTexts == {"unable to find secret", "failed to lookup secret"}

VARIABLES
    stored,    \* the Secret at the API server
    secret,    \* ap.secret: its cached copy
    hint,      \* the words of authHintMessage: whose text, whose length
    pc,        \* where each call is
    host,      \* the host it asks for
    got,       \* what its lookup was answered
    answer,    \* its answer
    solve,     \* the solve, which ends when a registry refuses
    refused,   \* the call whose answer the registry refuses
    shown,     \* the hint in the error Build returns
    changes, faults,
    held,      \* auxiliary: everything the API server has stored
    missed,    \* auxiliary: calls during which there was no Secret
    late       \* auxiliary: calls begun after one was answered from the Secret

vars == <<stored, secret, hint, pc, host, got, answer, solve, refused, shown, changes, faults, held, missed, late>>
callVars == <<pc, host, got, answer>>
solveVars == <<solve, refused, shown>>
auxVars == <<held, missed, late>>

Init ==
    /\ stored \in Answers /\ secret = Nil /\ hint = [text |-> Nothing, length |-> Nothing]
    /\ pc = [q \in Requests |-> "none"] /\ host = [q \in Requests |-> "other"]
    /\ got = [q \in Requests |-> Nil] /\ answer = [q \in Requests |-> Nothing]
    /\ solve = "running" /\ refused = Nothing /\ shown = hint
    /\ changes = 0 /\ faults = 0
    /\ held = {stored} /\ missed = {} /\ late = {}

Goto(q, label) == pc' = [pc EXCEPT ![q] = label]

\* Mutant of FromEntry: the login is preferred.
FromEntryLoginFirst(entry) ==
    IF ~entry.login /\ entry.auth = "invalid" THEN "error"
    ELSE IF entry.login \/ entry.auth = "valid" THEN "login"
    ELSE IF entry.token THEN "token"
    ELSE "anonymous"

\* decodeAuth is called for an incomplete login only; it fails on what is not
\* "user:password".  A token is preferred, a login may be empty.
FromEntry(entry) ==
    IF ~entry.login /\ entry.auth = "invalid" THEN "error"
    ELSE IF entry.token THEN "token"
    ELSE IF entry.login \/ entry.auth = "valid" THEN "login"
    ELSE "anonymous"

FromSecret(data, h) ==
    IF data.kind = "malformed" THEN "error"
    ELSE IF data.key = Key(h) THEN FromEntry(data.entry)
    ELSE "anonymous"

-----------------------------------------------------------------------------
(* Credentials: one step per access to what calls share *)

FromCache == {q \in Requests : answer[q] # Nothing /\ answer[q] # "lookup failed"}

Asks(q) ==
    /\ pc[q] = "none" /\ Goto(q, "check")
    /\ host' \in {[host EXCEPT ![q] = h] : h \in Hosts}
    /\ missed' = IF stored.kind = "absent" THEN missed \cup {q} ELSE missed
    /\ late' = IF FromCache # {} THEN late \cup {q} ELSE late
    /\ UNCHANGED <<stored, secret, hint, got, answer, solveVars, changes, faults, held>>

\* Mutant of Checks: a lookup that failed once is not tried again.
ChecksHint(q) ==
    /\ pc[q] = "check"
    /\ Goto(q, IF secret # Nil THEN "read" ELSE IF hint.text # Nothing THEN "text" ELSE "get")
    /\ got' = [got EXCEPT ![q] = Bare("absent")]
    /\ UNCHANGED <<stored, secret, hint, host, answer, solveVars, changes, faults, auxVars>>

Checks(q) ==
    /\ pc[q] = "check"
    /\ Goto(q, IF secret = Nil THEN "get" ELSE "read")
    /\ UNCHANGED <<stored, secret, hint, host, got, answer, solveVars, changes, faults, auxVars>>

\* Mutant of Looks: the error is checked after the Secret is kept, which a
\* failed call leaves empty.
LooksUnchecked(q) ==
    /\ pc[q] = "get" /\ Goto(q, "store")
    /\ got' = [got EXCEPT ![q] = stored]
    /\ UNCHANGED <<stored, secret, hint, host, answer, solveVars, changes, faults, auxVars>>

\* Mutant of Looks: only a Secret that is not found leaves a hint.
LooksHintingMissing(q) ==
    /\ pc[q] = "get"
    /\ \/ got' = [got EXCEPT ![q] = stored] /\ Goto(q, IF stored.kind = "absent" THEN "text" ELSE "store") /\ UNCHANGED faults
       \/ faults < MaxFaults /\ faults' = faults + 1 /\ got' = [got EXCEPT ![q] = Bare("failed")] /\ Goto(q, "answer")
    /\ UNCHANGED <<stored, secret, hint, host, answer, solveVars, changes, auxVars>>

Looks(q) ==
    /\ pc[q] = "get"
    /\ \/ got' = [got EXCEPT ![q] = stored] /\ UNCHANGED faults
       \/ faults < MaxFaults /\ faults' = faults + 1 /\ got' = [got EXCEPT ![q] = Bare("failed")]
    /\ \E label \in {"store", "text", "length"} :
         /\ (label = "store") = (got'[q].kind \notin {"absent", "failed"})
         /\ Goto(q, label)
    /\ UNCHANGED <<stored, secret, hint, host, answer, solveVars, changes, auxVars>>

HintOf(q) == IF got[q].kind = "absent" THEN "unable to find secret" ELSE "failed to lookup secret"

\* The two words of the hint are written in either order, then the call is
\* answered: no credentials, and no error.
SetsHint(q) ==
    /\ \/ /\ pc[q] = "text" /\ hint' = [hint EXCEPT !.text = HintOf(q)]
          /\ Goto(q, "lengthLast")
       \/ /\ pc[q] = "length" /\ hint' = [hint EXCEPT !.length = HintOf(q)]
          /\ Goto(q, "textLast")
       \/ pc[q] = "textLast" /\ hint' = [hint EXCEPT !.text = HintOf(q)] /\ Goto(q, "answer")
       \/ pc[q] = "lengthLast" /\ hint' = [hint EXCEPT !.length = HintOf(q)] /\ Goto(q, "answer")
    /\ UNCHANGED <<stored, secret, host, got, answer, solveVars, changes, faults, auxVars>>

\* Mutant of Stores: the Secret is used, but not kept.
StoresNothing(q) ==
    /\ pc[q] = "store" /\ Goto(q, "done")
    /\ answer' = [answer EXCEPT ![q] = FromSecret(got[q], host[q])]
    /\ UNCHANGED <<stored, secret, hint, host, got, solveVars, changes, faults, auxVars>>

Stores(q) ==
    /\ pc[q] = "store" /\ secret' = got[q] /\ Goto(q, "read")
    /\ UNCHANGED <<stored, hint, host, got, answer, solveVars, changes, faults, auxVars>>

\* ap.secret is read again; another call may have stored in between.
Reads(q) ==
    /\ pc[q] = "read" /\ Goto(q, "done")
    /\ answer' = [answer EXCEPT ![q] = FromSecret(secret, host[q])]
    /\ UNCHANGED <<stored, secret, hint, host, got, solveVars, changes, faults, auxVars>>

GivesUp(q) ==
    /\ pc[q] = "answer" /\ Goto(q, "done")
    /\ answer' = [answer EXCEPT ![q] = "lookup failed"]
    /\ UNCHANGED <<stored, secret, hint, host, got, solveVars, changes, faults, auxVars>>

-----------------------------------------------------------------------------
(* Around the calls *)

\* A user creates, replaces or deletes the Secret.
Changes ==
    /\ changes < MaxChanges /\ changes' = changes + 1
    /\ stored' \in Answers
    /\ held' = held \cup {stored'}
    /\ missed' = IF stored'.kind = "absent" THEN missed \cup {q \in Requests : pc[q] \notin {"none", "done"}} ELSE missed
    /\ UNCHANGED <<secret, hint, callVars, solveVars, faults, late>>

\* A registry answers "401 Unauthorized" to what buildkitd got, and the solve fails.
Refuses(q) ==
    /\ solve = "running" /\ pc[q] = "done" /\ answer[q] # "error"
    /\ solve' = "refused" /\ refused' = q
    /\ UNCHANGED <<stored, secret, hint, callVars, shown, changes, faults, auxVars>>

\* Build wraps the error in the hint, while other calls may still run.
Wraps ==
    /\ solve = "refused" /\ solve' = "wrapped" /\ shown' = hint
    /\ UNCHANGED <<stored, secret, hint, callVars, refused, changes, faults, auxVars>>

Call(q) == Asks(q) \/ Checks(q) \/ Looks(q) \/ SetsHint(q) \/ Stores(q) \/ Reads(q) \/ GivesUp(q)

Next ==
    /\ solve # "wrapped"
    /\ (\E q \in Requests : Call(q) \/ Refuses(q)) \/ Changes \/ Wraps

Spec == Init /\ [][Next]_vars

-----------------------------------------------------------------------------
(* Properties *)

\* The type invariant of every variable.
TypeOK ==
    /\ stored \in Answers /\ secret \in (Answers \cup {Nil}) \ {Bare("absent")}
    /\ {hint, shown} \subseteq [text : HintTexts \cup {Nothing}, length : HintTexts \cup {Nothing}]
    /\ pc \in [Requests -> {"none", "check", "get", "text", "length", "textLast", "lengthLast", "answer", "store", "read", "done"}]
    /\ host \in [Requests -> Hosts] /\ got \in [Requests -> Answers \cup {Bare("failed"), Nil}]
    /\ answer \in [Requests -> {Nothing, "token", "login", "anonymous", "error", "lookup failed"}]
    /\ solve \in {"running", "refused", "wrapped"} /\ refused \in Requests \cup {Nothing}
    /\ changes \in 0 .. MaxChanges /\ faults \in 0 .. MaxFaults
    /\ held \subseteq Answers /\ missed \subseteq Requests /\ late \subseteq Requests

\* A build that a registry refuses because the Secret was not found says so:
\* its error carries a hint with a text and a length, whatever other calls do
\* ("Try to give a slightly more helpful error message", build.go:762).
HintExplains ==
    solve = "wrapped" /\ answer[refused] = "lookup failed" => Nothing \notin {shown.text, shown.length}

\* Once a call was answered from the Secret, no later call is left without it,
\* even if the Secret is deleted or the API server fails.
OnceFoundAlwaysFound == \A q \in late : answer[q] # "lookup failed"

\* A call reports a missing Secret only if it was missing during that call,
\* not because an earlier call found none: a user may create it in between.
NotFoundWasMissing == \A q \in Requests : got[q].kind = "absent" => q \in missed

\* The entry that is meant for a host: Docker's own key for the hub
Meant(h) == IF h = "other" THEN "other" ELSE "https://index.docker.io/v1/"

\* A call is answered from a Secret that existed during the build, with the
\* token, then the login, of the registry that was asked for, and without
\* credentials only if none are meant for it.
AnswersFromSecret ==
    \A q \in FromCache : \E data \in held \ {Bare("absent")} :
        CASE answer[q] = "error" -> data.kind = "malformed" \/ data.entry.auth = "invalid"
          [] answer[q] = "token" -> data.key = Meant(host[q]) /\ data.entry.token
          [] answer[q] = "login" -> /\ data.key = Meant(host[q]) /\ ~data.entry.token
                                    /\ data.entry.login \/ data.entry.auth = "valid"
          [] OTHER -> data.kind = "registry" /\ (data.key = Meant(host[q]) => data.entry = NoEntry)
=============================================================================
