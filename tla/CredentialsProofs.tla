---------------------------- MODULE CredentialsProofs ----------------------------
(***************************************************************************)
(* Theorems about the registry credentials of a build, for any number of    *)
(* concurrent requests, of changes of the Secret and of failing lookups.    *)
(***************************************************************************)
EXTENDS Credentials, TLAPS

Labels == {"none", "check", "get", "text", "length", "textLast", "lengthLast", "answer",
           "store", "read", "done"}
Replies == {Nothing, "token", "login", "anonymous", "error", "lookup failed"}

\* What the theorems need of the types; a Secret that is about to be kept was
\* there.
ShapeInv ==
    /\ stored \in Answers
    /\ pc \in [Requests -> Labels] /\ host \in [Requests -> Hosts]
    /\ answer \in [Requests -> Replies]
    /\ got \in [Requests -> Answers \cup {Bare("failed"), Nil}]
    /\ secret \in (Answers \cup {Nil}) \ {Bare("absent")}
    /\ \A q \in Requests : pc[q] = "store" => got[q] \in Answers \ {Bare("absent")}
    /\ late \subseteq Requests /\ missed \subseteq Requests

LEMMA FromSecretType ==
    ASSUME NEW data, NEW h
    PROVE  FromSecret(data, h) \in Replies \ {Nothing, "lookup failed"}
BY DEF FromSecret, FromEntry, Replies, Nothing

LEMMA KindOf ==
    ASSUME NEW data \in Answers
    PROVE  data # Nil /\ data # Bare("failed") /\ data.kind # "failed"
           /\ (data.kind = "absent" <=> data = Bare("absent"))
BY DEF Answers, Bare, Nil

LEMMA ShapeStep ==
    ASSUME ShapeInv, [Next]_vars
    PROVE  ShapeInv'
<1> USE DEF ShapeInv
<1>1. ASSUME NEW q \in Requests, Asks(q) PROVE ShapeInv'
  BY <1>1 DEF Asks, Goto, Labels, solveVars
<1>2. ASSUME NEW q \in Requests, Checks(q) PROVE ShapeInv'
  BY <1>2 DEF Checks, Goto, Labels, auxVars
<1>3. ASSUME NEW q \in Requests, Looks(q) PROVE ShapeInv'
  <2>1. got'[q] \in {stored, Bare("failed")} /\ got' = [got EXCEPT ![q] = got'[q]]
    BY <1>3 DEF Looks
  <2>2. got' \in [Requests -> Answers \cup {Bare("failed"), Nil}]
    BY <2>1
  <2>3. PICK label \in {"store", "text", "length"} :
           (label = "store") = (got'[q].kind \notin {"absent", "failed"}) /\ Goto(q, label)
    BY <1>3 DEF Looks
  <2>4. pc' \in [Requests -> Labels] BY <2>3 DEF Goto, Labels
  <2>5. label = "store" => got'[q] \in Answers \ {Bare("absent")}
    BY <2>1, <2>3 DEF Bare
  <2>6. \A p \in Requests : pc'[p] = "store" => got'[p] \in Answers \ {Bare("absent")}
    BY <2>1, <2>3, <2>5 DEF Goto
  <2>. QED BY <1>3, <2>2, <2>4, <2>6 DEF Looks, auxVars
<1>4. ASSUME NEW q \in Requests, SetsHint(q) PROVE ShapeInv'
  BY <1>4 DEF SetsHint, Goto, Labels, auxVars
<1>5. ASSUME NEW q \in Requests, Stores(q) PROVE ShapeInv'
  BY <1>5 DEF Stores, Goto, Labels, auxVars
<1>6. ASSUME NEW q \in Requests, Reads(q) PROVE ShapeInv'
  <2>1. answer' \in [Requests -> Replies] BY <1>6, FromSecretType DEF Reads
  <2>. QED BY <1>6, <2>1 DEF Reads, Goto, Labels, auxVars
<1>7. ASSUME NEW q \in Requests, GivesUp(q) PROVE ShapeInv'
  BY <1>7 DEF GivesUp, Goto, Labels, Replies, auxVars
<1>8. ASSUME NEW q \in Requests, Refuses(q) PROVE ShapeInv'
  BY <1>8 DEF Refuses, callVars, auxVars
<1>9. CASE Changes BY <1>9 DEF Changes, callVars
<1>10. CASE Wraps \/ UNCHANGED vars BY <1>10 DEF Wraps, vars, callVars, auxVars
<1>. QED BY <1>1, <1>2, <1>3, <1>4, <1>5, <1>6, <1>7, <1>8, <1>9, <1>10 DEF Next, Call

LEMMA ShapeInvHolds == Spec => []ShapeInv
<1>1. Init => ShapeInv
  BY DEF Init, ShapeInv, Labels, Hosts, Replies, Answers, Nil, Bare
<1>. QED BY <1>1, ShapeStep, PTL DEF Spec

HintType == [text : HintTexts \cup {Nothing}, length : HintTexts \cup {Nothing}]
SolveInv ==
    /\ hint \in HintType /\ shown \in HintType
    /\ solve \in {"running", "refused", "wrapped"} /\ refused \in Requests \cup {Nothing}
    /\ changes \in 0 .. MaxChanges /\ faults \in 0 .. MaxFaults
    /\ held \subseteq Answers

LEMMA SolveStep ==
    ASSUME ShapeInv, SolveInv, [Next]_vars
    PROVE  SolveInv'
<1> USE DEF SolveInv
<1>1. ASSUME NEW q \in Requests, SetsHint(q) PROVE SolveInv'
  <2>1. HintOf(q) \in HintTexts BY DEF HintOf, HintTexts
  <2>2. hint' = [hint EXCEPT !.text = HintOf(q)] \/ hint' = [hint EXCEPT !.length = HintOf(q)]
    BY <1>1 DEF SetsHint
  <2>3. hint' \in HintType BY <2>1, <2>2 DEF HintType
  <2>. QED BY <1>1, <2>3 DEF SetsHint, solveVars, auxVars
<1>2. ASSUME NEW q \in Requests, Asks(q) \/ Checks(q) \/ Stores(q) \/ Reads(q) \/ GivesUp(q)
      PROVE  SolveInv'
  <2>1. UNCHANGED <<hint, solve, refused, shown, changes, faults, held>>
    BY <1>2 DEF Asks, Checks, Stores, Reads, GivesUp, solveVars, auxVars
  <2>. QED BY <2>1
<1>3. ASSUME NEW q \in Requests, Looks(q) PROVE SolveInv'
  <2>1. UNCHANGED <<hint, solve, refused, shown, changes, held>>
    BY <1>3 DEF Looks, solveVars, auxVars
  <2>2. faults' = faults \/ (faults < MaxFaults /\ faults' = faults + 1)
    BY <1>3 DEF Looks
  <2>3. faults' \in 0 .. MaxFaults BY <2>2, CredentialsAssumption
  <2>. QED BY <2>1, <2>3
<1>4. ASSUME NEW q \in Requests, Refuses(q) PROVE SolveInv'
  BY <1>4 DEF Refuses, auxVars
<1>5. CASE Changes
  BY <1>5, CredentialsAssumption DEF Changes, solveVars
<1>6. CASE Wraps \/ UNCHANGED vars BY <1>6 DEF Wraps, vars, auxVars
<1>. QED BY <1>1, <1>2, <1>3, <1>4, <1>5, <1>6 DEF Next, Call

\* Every variable keeps its type: in particular, what is cached is never the
\* answer of a lookup that found nothing.
THEOREM CredentialsTypeCorrect == Spec => []TypeOK
<1>1. Init => SolveInv
  BY CredentialsAssumption DEF Init, SolveInv, HintType, Nothing
<1>2. ShapeInv /\ SolveInv => TypeOK
  BY DEF ShapeInv, SolveInv, TypeOK, HintType, Labels, Replies
<1>. QED BY <1>1, <1>2, SolveStep, ShapeInvHolds, PTL DEF Spec

-----------------------------------------------------------------------------
(* The cached Secret *)

\* Once it is kept it stays, and whoever comes later sees it.
CacheInv ==
    /\ \A q \in Requests : pc[q] = "read" => secret # Nil
    /\ FromCache # {} => secret # Nil
    /\ \A q \in late :
          secret # Nil /\ pc[q] \in {"check", "read", "done"} /\ answer[q] # "lookup failed"
    /\ \A q \in Requests : pc[q] = "none" => answer[q] = Nothing

LEMMA CacheStep ==
    ASSUME ShapeInv, CacheInv, [Next]_vars
    PROVE  CacheInv'
<1> USE DEF ShapeInv, CacheInv, FromCache
<1>1. ASSUME NEW q \in Requests, Asks(q) PROVE CacheInv'
  BY <1>1 DEF Asks, Goto, Labels, solveVars, Nothing
<1>2. ASSUME NEW q \in Requests, Checks(q) PROVE CacheInv'
  BY <1>2 DEF Checks, Goto, Labels, auxVars
<1>3. ASSUME NEW q \in Requests, Looks(q) PROVE CacheInv'
  BY <1>3 DEF Looks, Goto, Labels, auxVars
<1>4. ASSUME NEW q \in Requests, SetsHint(q) PROVE CacheInv'
  BY <1>4 DEF SetsHint, Goto, Labels, auxVars
<1>5. ASSUME NEW q \in Requests, Stores(q) PROVE CacheInv'
  BY <1>5, KindOf DEF Stores, Goto, Labels, auxVars
<1>6. ASSUME NEW q \in Requests, Reads(q) PROVE CacheInv'
  BY <1>6, FromSecretType DEF Reads, Goto, Labels, auxVars
<1>7. ASSUME NEW q \in Requests, GivesUp(q) PROVE CacheInv'
  BY <1>7 DEF GivesUp, Goto, Labels, auxVars
<1>8. CASE Changes \/ Wraps \/ (\E q \in Requests : Refuses(q)) \/ UNCHANGED vars
  BY <1>8 DEF Changes, Wraps, Refuses, callVars, auxVars, vars
<1>. QED BY <1>1, <1>2, <1>3, <1>4, <1>5, <1>6, <1>7, <1>8 DEF Next, Call

\* Once a call was answered from the Secret, no later call is left without it.
THEOREM OnceFoundAlwaysFoundHolds == Spec => []OnceFoundAlwaysFound
<1>1. Init => CacheInv BY DEF Init, CacheInv, FromCache, Nothing
<1>2. CacheInv => OnceFoundAlwaysFound BY DEF CacheInv, OnceFoundAlwaysFound
<1>. QED BY <1>1, <1>2, CacheStep, ShapeInvHolds, PTL DEF Spec

-----------------------------------------------------------------------------
(* Lookups that fail *)

\* While a call runs, a Secret that is missing is remembered with it.
MissInv ==
    /\ \A q \in Requests : got[q].kind = "absent" => q \in missed
    /\ stored.kind = "absent" => \A q \in Requests : pc[q] \notin {"none", "done"} => q \in missed

LEMMA MissStep ==
    ASSUME ShapeInv, MissInv, [Next]_vars
    PROVE  MissInv'
<1> USE DEF ShapeInv, MissInv
<1>1. ASSUME NEW q \in Requests, Asks(q) PROVE MissInv'
  BY <1>1 DEF Asks, Goto, solveVars
<1>2. ASSUME NEW q \in Requests, Looks(q) PROVE MissInv'
  BY <1>2 DEF Looks, Goto, auxVars, Bare
<1>3. ASSUME NEW q \in Requests, Checks(q) \/ SetsHint(q) \/ Stores(q) \/ Reads(q) \/ GivesUp(q) PROVE MissInv'
  <2>1. UNCHANGED <<stored, got, missed>>
    BY <1>3 DEF Checks, SetsHint, Stores, Reads, GivesUp, auxVars
  <2>2. pc[q] \notin {"none", "done"} /\ \A p \in Requests : p # q => pc'[p] = pc[p]
    BY <1>3 DEF Checks, SetsHint, Stores, Reads, GivesUp, Goto
  <2>. QED BY <2>1, <2>2
<1>4. CASE Changes BY <1>4 DEF Changes, callVars
<1>5. CASE Wraps \/ (\E q \in Requests : Refuses(q)) \/ UNCHANGED vars
  BY <1>5 DEF Wraps, Refuses, callVars, auxVars, vars
<1>. QED BY <1>1, <1>2, <1>3, <1>4, <1>5 DEF Next, Call

\* A call reports a missing Secret only if it was missing during that call.
THEOREM NotFoundWasMissingHolds == Spec => []NotFoundWasMissing
<1>1. Init => MissInv BY DEF Init, MissInv, Nil, Bare
<1>2. MissInv => NotFoundWasMissing BY DEF MissInv, NotFoundWasMissing
<1>. QED BY <1>1, <1>2, MissStep, ShapeInvHolds, PTL DEF Spec

\* A word of the hint that is written stays written; the call that a registry
\* refuses has written both before it was answered.
HintInv ==
    /\ \A q \in Requests :
          /\ pc[q] = "lengthLast" => hint.text # Nothing
          /\ pc[q] = "textLast" => hint.length # Nothing
          /\ pc[q] = "answer" \/ answer[q] = "lookup failed" => Nothing \notin {hint.text, hint.length}
    /\ solve \in {"refused", "wrapped"} => refused \in Requests
    /\ hint \in [text : HintTexts \cup {Nothing}, length : HintTexts \cup {Nothing}]
    /\ HintExplains

LEMMA HintStep ==
    ASSUME ShapeInv, HintInv, [Next]_vars
    PROVE  HintInv'
<1> USE DEF ShapeInv, HintInv
<1>1. CASE UNCHANGED <<hint, answer, solve, refused, shown>> /\ UNCHANGED pc
  BY <1>1 DEF HintExplains
<1>2. ASSUME solve # "wrapped", NEW q \in Requests,
             Asks(q) \/ Checks(q) \/ Looks(q) \/ Stores(q)
      PROVE  HintInv'
  <2>1. UNCHANGED <<hint, answer, solve, refused, shown>>
    BY <1>2 DEF Asks, Checks, Looks, Stores, solveVars
  <2>2. pc'[q] \notin {"lengthLast", "textLast", "answer"} /\ \A p \in Requests : p # q => pc'[p] = pc[p]
    BY <1>2 DEF Asks, Checks, Looks, Stores, Goto
  <2>. QED BY <2>1, <2>2 DEF HintExplains
<1>3. ASSUME solve # "wrapped", NEW q \in Requests, SetsHint(q)
      PROVE  HintInv'
  <2>1. HintOf(q) # Nothing /\ HintOf(q) \in HintTexts BY DEF HintOf, HintTexts, Nothing
  <2>2. UNCHANGED <<answer, solve, refused, shown>> BY <1>3 DEF SetsHint, solveVars
  <2>3. /\ hint' \in [text : HintTexts \cup {Nothing}, length : HintTexts \cup {Nothing}]
        /\ hint.text # Nothing => hint'.text # Nothing
        /\ hint.length # Nothing => hint'.length # Nothing
    <3>1. hint' = [hint EXCEPT !.text = HintOf(q)] \/ hint' = [hint EXCEPT !.length = HintOf(q)]
      BY <1>3 DEF SetsHint
    <3>2. hint \in [text : HintTexts \cup {Nothing}, length : HintTexts \cup {Nothing}]
      OBVIOUS
    <3>. QED BY <2>1, <3>1, <3>2
  <2>4. /\ pc'[q] = "lengthLast" => hint'.text # Nothing
        /\ pc'[q] = "textLast" => hint'.length # Nothing
        /\ pc'[q] = "answer" => Nothing \notin {hint'.text, hint'.length}
        /\ \A p \in Requests : p # q => pc'[p] = pc[p]
    BY <1>3, <2>1 DEF SetsHint, Goto
  <2>. QED BY <1>3, <2>2, <2>3, <2>4 DEF HintExplains
<1>4. ASSUME solve # "wrapped", NEW q \in Requests, Reads(q) \/ GivesUp(q)
      PROVE  HintInv'
  <2>1. UNCHANGED <<hint, solve, refused, shown>> BY <1>4 DEF Reads, GivesUp, solveVars
  <2>2. pc'[q] = "done" /\ \A p \in Requests : p # q => pc'[p] = pc[p] /\ answer'[p] = answer[p]
    BY <1>4 DEF Reads, GivesUp, Goto
  <2>3. answer'[q] = "lookup failed" => pc[q] = "answer"
    <3>1. CASE Reads(q)
      <4>1. answer'[q] = FromSecret(secret, host[q]) BY <3>1 DEF Reads
      <4>. QED BY <4>1, FromSecretType
    <3>2. CASE GivesUp(q) BY <3>2 DEF GivesUp
    <3>. QED BY <1>4, <3>1, <3>2
  <2>. QED BY <1>4, <2>1, <2>2, <2>3 DEF HintExplains
<1>5. ASSUME NEW q \in Requests, Refuses(q) PROVE HintInv'
  BY <1>5 DEF Refuses, callVars, HintExplains
<1>6. CASE Wraps BY <1>6 DEF Wraps, callVars, HintExplains
<1>7. CASE Changes BY <1>1, <1>7 DEF Changes, callVars, solveVars
<1>8. CASE UNCHANGED vars BY <1>1, <1>8 DEF vars
<1>. QED BY <1>2, <1>3, <1>4, <1>5, <1>6, <1>7, <1>8 DEF Next, Call

\* A build that a registry refuses because the Secret was not found says so.
THEOREM HintExplainsHolds == Spec => []HintExplains
<1>1. Init => HintInv
  BY DEF Init, HintInv, HintExplains, HintTexts, Nothing
<1>2. HintInv => HintExplains BY DEF HintInv
<1>. QED BY <1>1, <1>2, HintStep, ShapeInvHolds, PTL DEF Spec

-----------------------------------------------------------------------------
(* The answers *)

\* What is read comes from a Secret that existed.
SourceInv ==
    /\ stored \in held
    /\ \A q \in Requests : pc[q] = "store" => got[q] \in held \ {Bare("absent")}
    /\ secret # Nil => secret \in held \ {Bare("absent")}
    /\ \A q \in Requests : pc[q] = "read" => secret # Nil
    /\ \A q \in Requests : pc[q] = "none" => answer[q] = Nothing
    /\ \A q \in FromCache : \E data \in held \ {Bare("absent")} : answer[q] = FromSecret(data, host[q])
    /\ held \subseteq Answers

LEMMA SourceStep ==
    ASSUME ShapeInv, SourceInv, [Next]_vars
    PROVE  SourceInv'
<1> USE DEF ShapeInv, SourceInv
<1>1. ASSUME NEW q \in Requests, Asks(q) PROVE SourceInv'
  <2>1. q \notin FromCache BY <1>1 DEF Asks, FromCache
  <2>2. FromCache' = FromCache /\ \A p \in FromCache : host'[p] = host[p]
    BY <1>1, <2>1 DEF Asks, FromCache
  <2>3. /\ \A p \in Requests : pc'[p] = "none" => pc[p] = "none"
        /\ \A p \in Requests : pc'[p] \in {"store", "read"} => pc'[p] = pc[p]
    BY <1>1 DEF Asks, Goto
  <2>. QED BY <1>1, <2>2, <2>3 DEF Asks, solveVars
<1>2. ASSUME NEW q \in Requests, Checks(q) PROVE SourceInv'
  BY <1>2 DEF Checks, Goto, auxVars, FromCache
<1>3. ASSUME NEW q \in Requests, Looks(q) PROVE SourceInv'
  <2>1. UNCHANGED <<stored, held, secret, answer, host>>
    BY <1>3 DEF Looks, auxVars
  <2>2. /\ pc'[q] \in {"store", "text", "length"}
        /\ \A p \in Requests : p # q => pc'[p] = pc[p] /\ got'[p] = got[p]
    BY <1>3 DEF Looks, Goto
  <2>3. pc'[q] = "store" => got'[q] = stored /\ stored # Bare("absent")
    BY <1>3 DEF Looks, Goto, Bare
  <2>. QED BY <2>1, <2>2, <2>3 DEF FromCache
<1>4. ASSUME NEW q \in Requests, SetsHint(q) PROVE SourceInv'
  BY <1>4 DEF SetsHint, Goto, auxVars, FromCache
<1>5. ASSUME NEW q \in Requests, Stores(q) PROVE SourceInv'
  BY <1>5, KindOf DEF Stores, Goto, auxVars, FromCache
<1>6. ASSUME NEW q \in Requests, Reads(q) PROVE SourceInv'
  <2>1. /\ answer' = [answer EXCEPT ![q] = FromSecret(secret, host[q])]
        /\ secret \in held \ {Bare("absent")}
        /\ UNCHANGED <<stored, secret, got, held, host>>
    BY <1>6 DEF Reads, auxVars
  <2>2. pc' = [pc EXCEPT ![q] = "done"] BY <1>6 DEF Reads, Goto
  <2>3. \A p \in FromCache' : \E data \in held \ {Bare("absent")} : answer'[p] = FromSecret(data, host[p])
    BY <2>1 DEF FromCache
  <2>. QED BY <2>1, <2>2, <2>3
<1>7. ASSUME NEW q \in Requests, GivesUp(q) PROVE SourceInv'
  BY <1>7 DEF GivesUp, Goto, auxVars, FromCache
<1>8. CASE Changes
  BY <1>8 DEF Changes, callVars, FromCache
<1>9. CASE Wraps \/ (\E q \in Requests : Refuses(q)) \/ UNCHANGED vars
  BY <1>9 DEF Wraps, Refuses, callVars, auxVars, vars, FromCache
<1>. QED BY <1>1, <1>2, <1>3, <1>4, <1>5, <1>6, <1>7, <1>8, <1>9 DEF Next, Call

\* Credentials prefers the token, then the login, of the entry that is meant
\* for the host, and answers without credentials only if there is none.
LEMMA FromSecretMeans ==
    ASSUME NEW data \in Answers \ {Bare("absent")}, NEW h \in Hosts
    PROVE  LET reply == FromSecret(data, h) IN
           CASE reply = "error" -> data.kind = "malformed" \/ data.entry.auth = "invalid"
             [] reply = "token" -> data.key = Meant(h) /\ data.entry.token
             [] reply = "login" -> /\ data.key = Meant(h) /\ ~data.entry.token
                                   /\ data.entry.login \/ data.entry.auth = "valid"
             [] OTHER -> data.kind = "registry" /\ (data.key = Meant(h) => data.entry = NoEntry)
<1>1. Key(h) = Meant(h) BY DEF Hosts, Key, Meant
<1>2. CASE data.kind = "malformed" BY <1>2 DEF FromSecret
<1>3. CASE data.kind = "registry"
  <2>1. CASE data.key # Meant(h) BY <1>1, <1>3, <2>1 DEF FromSecret
  <2>2. CASE data.key = Meant(h)
    <3>1. data.entry \in Entries BY <1>3 DEF Answers, Bare
    <3>2. FromSecret(data, h) = FromEntry(data.entry) BY <1>1, <1>3, <2>2 DEF FromSecret
    <3>3. FromEntry(data.entry) \notin {"error", "token", "login"} => data.entry = NoEntry
      <4>1. SUFFICES ASSUME NEW entry \in Entries, FromEntry(entry) \notin {"error", "token", "login"}
                     PROVE  entry = NoEntry
        BY <3>1
      <4>2. entry.login = FALSE /\ entry.token = FALSE /\ entry.auth = "none"
        BY <4>1 DEF FromEntry, Entries
      <4>. QED BY <4>1, <4>2 DEF Entries, NoEntry
    <3>. QED BY <1>3, <2>2, <3>2, <3>3 DEF FromEntry
  <2>. QED BY <2>1, <2>2
<1>. QED BY <1>2, <1>3 DEF Answers, Bare

\* Every answer comes from a Secret that existed during the build, with what
\* is meant for the host.
THEOREM AnswersFromSecretHolds == Spec => []AnswersFromSecret
<1>1. Init => SourceInv
  BY DEF Init, SourceInv, FromCache, Nothing, Answers, Bare
<1>2. ShapeInv /\ SourceInv => AnswersFromSecret
  <2> SUFFICES ASSUME ShapeInv, SourceInv PROVE AnswersFromSecret
    OBVIOUS
  <2>1. ASSUME NEW q \in FromCache
        PROVE  \E data \in held \ {Bare("absent")} :
                  CASE answer[q] = "error" -> data.kind = "malformed" \/ data.entry.auth = "invalid"
                    [] answer[q] = "token" -> data.key = Meant(host[q]) /\ data.entry.token
                    [] answer[q] = "login" -> /\ data.key = Meant(host[q]) /\ ~data.entry.token
                                              /\ data.entry.login \/ data.entry.auth = "valid"
                    [] OTHER -> data.kind = "registry" /\ (data.key = Meant(host[q]) => data.entry = NoEntry)
    <3>1. PICK data \in held \ {Bare("absent")} : answer[q] = FromSecret(data, host[q])
      BY <2>1 DEF SourceInv
    <3>2. data \in Answers \ {Bare("absent")} /\ host[q] \in Hosts
      BY <2>1, <3>1 DEF SourceInv, ShapeInv, FromCache
    <3>. QED BY <3>1, <3>2, FromSecretMeans
  <2>. QED BY <2>1 DEF AnswersFromSecret
<1>. QED BY <1>1, <1>2, SourceStep, ShapeInvHolds, PTL DEF Spec
=============================================================================
