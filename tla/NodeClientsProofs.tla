---------------------------- MODULE NodeClientsProofs ----------------------------
(***************************************************************************)
(* Theorems about the connections to a builder's nodes: the pods they are   *)
(* opened to, for any set of names and any placement of the hash ring, and  *)
(* one of them, for any number of goroutines that close it and any number   *)
(* of messages.                                                             *)
(***************************************************************************)
EXTENDS NodeClients, FiniteSetTheorems, TLAPS

-----------------------------------------------------------------------------
(* Sorting a finite set of names *)

\* A nonempty finite set of numbers has a least element.
LEMMA HasLeast ==
    ASSUME NEW S, S \subseteq Nat, IsFiniteSet(S), S # {}
    PROVE  \E m \in S : \A n \in S : m <= n
<1> DEFINE Least(T) == \E m \in T : \A n \in T : m <= n
<1> DEFINE Bad == {T \in SUBSET S : T # {} /\ ~Least(T)}
<1>1. SUFFICES ASSUME ~Least(S) PROVE FALSE
  OBVIOUS
<1>2. Bad # {} BY <1>1
<1>3. Bad \subseteq FiniteSubsetsOf(S)
  BY FS_FiniteSubsetsOfFinite
<1>4. PICK T \in Bad : \A U \in Bad : <<U, T>> \notin StrictSubsetOrdering(S)
  <2> HIDE DEF Bad
  <2>. QED BY <1>2, <1>3, FS_StrictSubsetOrderingWellFounded, WFMin
<1>5. PICK x \in T : TRUE
  OBVIOUS
<1>6. T \ {x} \notin Bad
  <2>1. <<T \ {x}, T>> \in StrictSubsetOrdering(S) BY <1>5 DEF StrictSubsetOrdering
  <2>. QED BY <1>4, <2>1
<1>7. CASE T \ {x} = {}
  <2>1. \A n \in T : n = x BY <1>5, <1>7
  <2>. QED BY <1>5, <2>1
<1>8. CASE Least(T \ {x})
  <2>1. PICK m \in T \ {x} : \A n \in T \ {x} : m <= n BY <1>8
  <2>2. CASE m <= x BY <2>1, <2>2
  <2>3. CASE ~(m <= x)
    <3>1. \A n \in T : x <= n BY <2>1, <2>3
    <3>. QED BY <1>5, <3>1
  <2>. QED BY <2>2, <2>3
<1>. QED BY <1>6, <1>7, <1>8

Sorts(s, S) == s \in SetToSeqs(S) /\ \A i, j \in DOMAIN s : i < j => s[i] < s[j]

\* The least element before the rest, sorted.
LEMMA LeastFirst ==
    ASSUME NEW S, S \subseteq Nat, IsFiniteSet(S), NEW m \in S, \A n \in S : m <= n,
           NEW s, Sorts(s, S \ {m})
    PROVE  \E t : Sorts(t, S)
<1> DEFINE c == Cardinality(S)
           t == [i \in 1 .. c |-> IF i = 1 THEN m ELSE s[i - 1]]
<1>1. c \in Nat /\ c # 0 /\ Cardinality(S \ {m}) = c - 1
  BY FS_CardinalityType, FS_RemoveElement, FS_EmptySet
<1>2. s \in [1 .. c - 1 -> S \ {m}] BY <1>1 DEF Sorts, SetToSeqs
<1>3. \A i, j \in 1 .. c - 1 : i < j => s[i] < s[j] BY <1>2 DEF Sorts
<1> HIDE DEF c
<1>4. \A i \in 2 .. c : s[i - 1] \in S \ {m} BY <1>1, <1>2
<1>5. t \in [1 .. c -> S] BY <1>4
<1>6. \A i, j \in 1 .. c : i < j => t[i] < t[j]
  <2> SUFFICES ASSUME NEW i \in 1 .. c, NEW j \in 1 .. c, i < j PROVE t[i] < t[j]
    OBVIOUS
  <2>1. t[j] = s[j - 1] BY <1>1
  <2>2. CASE i = 1
    <3>1. s[j - 1] \in S /\ s[j - 1] # m BY <1>1, <1>4, <2>2
    <3>2. m <= s[j - 1] /\ m \in Nat /\ s[j - 1] \in Nat BY <3>1
    <3>3. m < s[j - 1]
      <4> HIDE DEF t
      <4>. QED BY <3>1, <3>2
    <3>4. t[i] = m BY <2>2
    <3>. QED BY <2>1, <3>3, <3>4
  <2>3. CASE i # 1
    <3>1. t[i] = s[i - 1] BY <1>1, <2>3
    <3>2. s[i - 1] < s[j - 1] BY <1>1, <1>3, <2>3
    <3>. QED BY <2>1, <3>1, <3>2
  <2>. QED BY <2>2, <2>3
<1>7. \A i, j \in 1 .. c : i # j => t[i] # t[j]
  <2> SUFFICES ASSUME NEW i \in 1 .. c, NEW j \in 1 .. c, i # j PROVE t[i] # t[j]
    OBVIOUS
  <2> HIDE DEF t
  <2>1. t[i] \in Nat /\ t[j] \in Nat BY <1>5
  <2>2. i < j \/ j < i BY <1>1
  <2>. QED BY <1>6, <2>1, <2>2
<1>8. Sorts(t, S)
  <2> HIDE DEF t
  <2>. QED BY <1>5, <1>6, <1>7 DEF Sorts, SetToSeqs, c
<1>. QED BY <1>8

LEMMA CanSort ==
    ASSUME NEW S, S \subseteq Nat, IsFiniteSet(S)
    PROVE  \E s : Sorts(s, S)
<1> DEFINE Bad == {T \in SUBSET S : \A s : ~Sorts(s, T)}
<1>1. SUFFICES ASSUME \A s : ~Sorts(s, S) PROVE FALSE
  OBVIOUS
<1>2. Bad # {} BY <1>1
<1>3. Bad \subseteq FiniteSubsetsOf(S) BY FS_FiniteSubsetsOfFinite
<1>4. PICK T \in Bad : \A U \in Bad : <<U, T>> \notin StrictSubsetOrdering(S)
  <2> HIDE DEF Bad
  <2>. QED BY <1>2, <1>3, FS_StrictSubsetOrderingWellFounded, WFMin
<1>5. T # {}
  <2>1. Cardinality({}) = 0 BY FS_EmptySet
  <2>2. << >> \in SetToSeqs({}) BY <2>1 DEF SetToSeqs
  <2>3. Sorts(<< >>, {}) BY <2>2 DEF Sorts
  <2>. QED BY <1>4, <2>3
<1>6. T \subseteq Nat /\ IsFiniteSet(T) BY FS_Subset
<1>7. PICK m \in T : \A n \in T : m <= n BY <1>5, <1>6, HasLeast
<1>8. T \ {m} \notin Bad
  <2>1. <<T \ {m}, T>> \in StrictSubsetOrdering(S) BY DEF StrictSubsetOrdering
  <2>. QED BY <1>4, <2>1
<1>9. PICK s : Sorts(s, T \ {m}) BY <1>8
<1>. QED BY <1>4, <1>6, <1>7, <1>9, LeastFirst

\* What sorting returns: every element, once.
LEMMA SortedHolds ==
    ASSUME NEW S, S \subseteq Nat, IsFiniteSet(S)
    PROVE  Sorted(S) \in Seq(S) /\ Len(Sorted(S)) = Cardinality(S)
           /\ IsInjective(Sorted(S)) /\ ToSet(Sorted(S)) = S
<1> DEFINE s == Sorted(S)
           c == Cardinality(S)
<1>1. s \in SetToSeqs(S)
  <2>1. \E t \in SetToSeqs(S) : \A i, j \in DOMAIN t : i < j => t[i] < t[j]
    BY CanSort DEF Sorts
  <2>. QED BY <2>1 DEF Sorted
<1>2. c \in Nat BY FS_CardinalityType
<1> HIDE DEF s
<1>3. s \in [1 .. c -> S] /\ \A i, j \in 1 .. c : i # j => s[i] # s[j] BY <1>1 DEF SetToSeqs
<1>4. s \in Seq(S) /\ Len(s) = c BY <1>2, <1>3
<1>5. s \in Injection(1 .. c, S) BY <1>3 DEF Injection, IsInjective
<1>6. Cardinality(1 .. c) = c BY <1>2, FS_Interval
<1>7. s \in Surjection(1 .. c, S) BY <1>5, <1>6, FS_Injection
<1>8. ToSet(s) = S BY <1>3, <1>7 DEF ToSet, Surjection
<1>9. IsInjective(s) BY <1>5 DEF Injection
<1>. QED BY <1>4, <1>8, <1>9 DEF s

-----------------------------------------------------------------------------
(* What a chooser returns *)

Pods == [name : Names, phase : {"Running", "Pending"}]
Deciders == {"random", "sticky"}

Splits(chosen, others, S) ==
    /\ chosen \in S /\ others \in Seq(S) /\ IsInjective(others)

LEMMA RunningSorted ==
    ASSUME listed \in Seq(Pods), NEW S, S \subseteq Running
    PROVE  /\ S \subseteq Names
           /\ Sorted(S) \in Seq(S) /\ IsInjective(Sorted(S)) /\ ToSet(Sorted(S)) = S
<1>1. Running \subseteq Names
  <2>1. \A i \in DOMAIN listed : listed[i] \in Pods OBVIOUS
  <2>2. \A p \in ToSet(listed) : p.name \in Names BY <2>1 DEF ToSet, Pods
  <2>. QED BY <2>2 DEF Running
<1>2. Names \subseteq Nat /\ IsFiniteSet(Names) BY ChooserAssumption
<1>3. S \in SUBSET Names BY <1>1
<1>4. S \subseteq Nat BY <1>2, <1>3
<1>5. IsFiniteSet(S) BY <1>2, <1>3, FS_Subset
<1>. QED BY <1>3, <1>4, <1>5, SortedHolds

\* Shifting the tail over one pod and dropping the last place leaves no pod twice.
LEMMA ShiftedSplits ==
    ASSUME NEW S, NEW pods \in Seq(S), IsInjective(pods), NEW n \in DOMAIN pods
    PROVE  LET array == Shifted(pods, n)
               rest == SubSeq(array, 1, Len(array) - 1) IN
           /\ array[n] \in S
           /\ rest \in Seq(S) /\ IsInjective(rest)
<1> DEFINE array == Shifted(pods, n)
           rest == SubSeq(array, 1, Len(array) - 1)
           l == Len(pods)
<1>1. l \in Nat /\ n \in 1 .. l /\ DOMAIN pods = 1 .. l /\ \A i \in 1 .. l : pods[i] \in S
  OBVIOUS
<1>2. \A i, j \in 1 .. l : pods[i] = pods[j] => i = j BY <1>1 DEF IsInjective
<1>3. array = [i \in 1 .. l |-> IF i < n \/ i = l THEN pods[i] ELSE pods[i + 1]]
  BY <1>1 DEF Shifted
<1> HIDE DEF array, l
<1>4. array \in [1 .. l -> S]
  <2>1. \A i \in 1 .. l : i < n \/ i = l \/ i + 1 \in 1 .. l BY <1>1
  <2>2. \A i \in 1 .. l : (IF i < n \/ i = l THEN pods[i] ELSE pods[i + 1]) \in S BY <1>1, <2>1
  <2>. QED BY <1>3, <2>2
<1>5. array \in Seq(S) /\ Len(array) = l /\ array[n] \in S BY <1>1, <1>4
<1>6. /\ rest \in Seq(S) /\ DOMAIN rest = 1 .. l - 1
      /\ \A i \in 1 .. l - 1 : rest[i] = array[i]
  BY <1>1, <1>5
<1> HIDE DEF rest
<1>7. IsInjective(rest)
  <2> SUFFICES ASSUME NEW i \in 1 .. l - 1, NEW j \in 1 .. l - 1, rest[i] = rest[j] PROVE i = j
    BY <1>6 DEF IsInjective
  <2> DEFINE place(k) == IF k < n THEN k ELSE k + 1
  <2>1. place(i) \in 1 .. l /\ place(j) \in 1 .. l /\ (place(i) = place(j) => i = j) BY <1>1
  <2>2. \A k \in 1 .. l - 1 : k \in 1 .. l /\ k # l BY <1>1
  <2>3. \A k \in 1 .. l - 1 : array[k] = pods[place(k)] BY <1>3, <2>2
  <2>4. rest[i] = pods[place(i)] /\ rest[j] = pods[place(j)] BY <1>6, <2>3
  <2> HIDE DEF place
  <2>. QED BY <1>2, <2>1, <2>4
<1>. QED BY <1>5, <1>6, <1>7 DEF array, rest

Chosen == answer.by \in Deciders

ChooserInv ==
    /\ listed \in Seq(Pods)
    /\ answer \in [by : {"none", "error"}] \cup [by : Deciders, chosen : Names, others : Seq(Names)]
    /\ Chosen => Splits(answer.chosen, answer.others, Running)
    /\ answer.by = "sticky" => ToSet(answer.others) = Running \ {answer.chosen}

LEMMA SeqOfSubset ==
    ASSUME NEW S, NEW T, S \subseteq T, NEW s \in Seq(S)
    PROVE  s \in Seq(T)
OBVIOUS

LEMMA ChooserInit == Init => ChooserInv
<1> SUFFICES ASSUME Init PROVE ChooserInv
  OBVIOUS
<1>1. PICK S \in SUBSET Names : \E order \in SetToSeqs(S), of \in [S -> {"Running", "Pending"}] :
         listed = [i \in 1 .. Len(order) |-> [name |-> order[i], phase |-> of[order[i]]]]
  BY DEF Init
<1>. PICK order \in SetToSeqs(S), of \in [S -> {"Running", "Pending"}] :
         listed = [i \in 1 .. Len(order) |-> [name |-> order[i], phase |-> of[order[i]]]]
  BY <1>1
<1>2. IsFiniteSet(S) BY ChooserAssumption, FS_Subset
<1>3. order \in Seq(S) BY <1>2, FS_CardinalityType DEF SetToSeqs
<1>4. \A i \in 1 .. Len(order) : [name |-> order[i], phase |-> of[order[i]]] \in Pods
  BY <1>3 DEF Pods
<1>5. listed \in Seq(Pods) BY <1>3, <1>4
<1>6. answer = [by |-> "none"] BY DEF Init
<1>. QED BY <1>5, <1>6 DEF ChooserInv, Chosen, Deciders

\* What ChoosePod returns.
LEMMA ChoosePodAnswers ==
    ASSUME ChooserInv, Next
    PROVE  /\ listed' = listed
           /\ \/ answer' = [by |-> "error"]
              \/ \E by \in Deciders, c \in Running, o \in Seq(Running) :
                    /\ answer' = [by |-> by, chosen |-> c, others |-> o]
                    /\ IsInjective(o)
                    /\ by = "sticky" => ToSet(o) = Running \ {c}
<1> DEFINE Chose == \E by \in Deciders, c \in Running, o \in Seq(Running) :
                    /\ answer' = [by |-> by, chosen |-> c, others |-> o]
                    /\ IsInjective(o)
                    /\ by = "sticky" => ToSet(o) = Running \ {c}
<1>1. listed \in Seq(Pods) BY DEF ChooserInv
<1>2. CASE NoPods BY <1>2 DEF NoPods, Next
<1>3. CASE RandomChoosePod
  <2> DEFINE pods == ListRunningPods
  <2>1. pods \in Seq(Running) /\ IsInjective(pods) BY <1>1, RunningSorted DEF ListRunningPods
  <2> HIDE DEF pods
  <2>2. PICK n \in DOMAIN pods, first \in {"index", "append"} :
           answer' = [by |-> "random",
                      chosen |-> IF first = "index" THEN pods[n] ELSE Shifted(pods, n)[n],
                      others |-> SubSeq(Shifted(pods, n), 1, Len(Shifted(pods, n)) - 1)]
    BY <1>3 DEF RandomChoosePod, Answer, pods
  <2> DEFINE c == IF first = "index" THEN pods[n] ELSE Shifted(pods, n)[n]
             o == SubSeq(Shifted(pods, n), 1, Len(Shifted(pods, n)) - 1)
  <2>3. /\ Shifted(pods, n)[n] \in Running /\ o \in Seq(Running) /\ IsInjective(o)
    BY <2>1, ShiftedSplits
  <2>4. pods[n] \in Running BY <2>1
  <2>5. c \in Running BY <2>3, <2>4
  <2>6. answer' = [by |-> "random", chosen |-> c, others |-> o] BY <2>2
  <2> HIDE DEF c, o
  <2>7. Chose BY <2>3, <2>5, <2>6 DEF Deciders
  <2>. QED BY <2>7 DEF Next
<1>4. CASE StickyChoosePod
  <2> DEFINE c == Preferred[Running]
             o == Sorted(Running \ {c})
  <2>1. Running # {} /\ answer' = [by |-> "sticky", chosen |-> c, others |-> o]
    BY <1>4 DEF StickyChoosePod, Answer
  <2>2. Running \subseteq Names BY <1>1, RunningSorted
  <2>3. c \in Running BY <2>1, <2>2, ChooserAssumption
  <2>4. o \in Seq(Running \ {c}) /\ IsInjective(o) /\ ToSet(o) = Running \ {c}
    BY <1>1, RunningSorted
  <2> HIDE DEF c, o
  <2>5. o \in Seq(Running) BY <2>4, SeqOfSubset
  <2>6. Chose BY <2>1, <2>3, <2>4, <2>5 DEF Deciders
  <2>. QED BY <2>6 DEF Next
<1>. QED BY <1>2, <1>3, <1>4 DEF Next

LEMMA ChooserKeeps == ChooserInv /\ Next => ChooserInv'
<1> SUFFICES ASSUME ChooserInv, Next PROVE ChooserInv'
  OBVIOUS
<1>1. listed' = listed /\ Running' = Running BY ChoosePodAnswers DEF Running
<1>2. listed' \in Seq(Pods) BY <1>1 DEF ChooserInv
<1>3. CASE answer' = [by |-> "error"]
  BY <1>2, <1>3 DEF ChooserInv, Chosen, Deciders
<1>4. ASSUME NEW by \in Deciders, NEW c \in Running, NEW o \in Seq(Running),
             answer' = [by |-> by, chosen |-> c, others |-> o],
             IsInjective(o), by = "sticky" => ToSet(o) = Running \ {c}
      PROVE  ChooserInv'
  <2>1. Running \subseteq Names BY RunningSorted DEF ChooserInv
  <2>2. c \in Names /\ o \in Seq(Names) BY <2>1, SeqOfSubset
  <2>3. answer' \in [by : Deciders, chosen : Names, others : Seq(Names)] BY <1>4, <2>2
  <2>4. answer'.by = by /\ answer'.chosen = c /\ answer'.others = o BY <1>4
  <2>5. Splits(c, o, Running) BY <1>4 DEF Splits
  <2>6. (Splits(answer.chosen, answer.others, Running))' BY <1>1, <2>4, <2>5
  <2>7. (answer.by = "sticky" => ToSet(answer.others) = Running \ {answer.chosen})'
    BY <1>1, <1>4, <2>4
  <2>. QED BY <1>2, <2>3, <2>6, <2>7 DEF ChooserInv
<1>. QED BY <1>3, <1>4, ChoosePodAnswers

-----------------------------------------------------------------------------
(* The streams that Clients opens *)

\* While the connections are opened, the streams and the pods still to dial are
\* what the chooser returned, in its order.
ClientsInv ==
    /\ phase \in {"choose", "dial", "clients", "connected", "error"}
    /\ toDial \in Seq(Names) /\ streams \in Seq(Names)
    /\ phase = "choose" => streams = <<>>
    /\ phase \in {"dial", "clients"} => Chosen /\ streams \o toDial = <<answer.chosen>> \o answer.others
    /\ phase = "clients" => toDial = <<>>

LEMMA ChoosePreserves == ASSUME ChooserInv, ChooserInv', ClientsInv, Choose PROVE ClientsInv'
<1>1. phase = "choose" /\ Next /\ streams = <<>> /\ streams' = <<>>
  BY DEF Choose, ClientsInv
<1>2. CASE answer'.by = "error"
  <2>1. phase' = "error" /\ toDial' = toDial BY <1>2 DEF Choose
  <2>. QED BY <1>1, <2>1 DEF ClientsInv
<1>3. CASE answer'.by # "error"
  <2>1. phase' = "dial" /\ toDial' = <<answer'.chosen>> \o answer'.others BY <1>3 DEF Choose
  <2>2. answer'.by \in Deciders /\ answer'.chosen \in Names /\ answer'.others \in Seq(Names)
    <3>1. answer' = [by |-> "error"] \/ \E by \in Deciders, c \in Running, o \in Seq(Running) :
             answer' = [by |-> by, chosen |-> c, others |-> o]
      BY <1>1, ChoosePodAnswers
    <3>2. Running \subseteq Names BY RunningSorted DEF ChooserInv
    <3>3. PICK by \in Deciders, c \in Running, o \in Seq(Running) :
             answer' = [by |-> by, chosen |-> c, others |-> o]
      BY <1>3, <3>1
    <3>4. o \in Seq(Names) BY <3>2, SeqOfSubset
    <3>. QED BY <3>2, <3>3, <3>4
  <2>3. toDial' \in Seq(Names) BY <2>1, <2>2
  <2>4. streams' \o toDial' = toDial' BY <1>1, <2>3
  <2>. QED BY <1>1, <2>1, <2>2, <2>3, <2>4 DEF ClientsInv, Chosen
<1>. QED BY <1>2, <1>3

LEMMA MovesHead ==
    ASSUME NEW S, NEW s \in Seq(S), NEW t \in Seq(S), t # <<>>
    PROVE  /\ Append(s, Head(t)) \in Seq(S) /\ Tail(t) \in Seq(S)
           /\ Append(s, Head(t)) \o Tail(t) = s \o t
<1>1. Append(s, Head(t)) \in Seq(S) /\ Tail(t) \in Seq(S) OBVIOUS
<1> DEFINE a == Append(s, Head(t)) \o Tail(t)
           b == s \o t
<1>2. a \in Seq(S) /\ b \in Seq(S) BY <1>1
<1>3. Len(a) = Len(b) BY <1>1
<1>4. \A i \in 1 .. Len(b) : a[i] = b[i]
  <2>1. TAKE i \in 1 .. Len(b)
  <2>2. CASE i <= Len(s) BY <2>2
  <2>3. CASE i = Len(s) + 1 BY <2>3
  <2>4. CASE i > Len(s) + 1 BY <2>4
  <2>. QED BY <2>2, <2>3, <2>4
<1> HIDE DEF a, b
<1>5. a = b BY <1>2, <1>3, <1>4
<1>. QED BY <1>1, <1>5 DEF a, b

LEMMA DialPreserves == ASSUME ClientsInv, DialsNode PROVE ClientsInv'
<1>1. /\ phase = "dial" /\ toDial # <<>> /\ answer' = answer
      /\ toDial \in Seq(Names) /\ streams \in Seq(Names)
      /\ Chosen /\ streams \o toDial = <<answer.chosen>> \o answer.others
  BY DEF DialsNode, ClientsInv
<1>2. /\ Append(streams, Head(toDial)) \in Seq(Names) /\ Tail(toDial) \in Seq(Names)
      /\ Append(streams, Head(toDial)) \o Tail(toDial) = streams \o toDial
  <2>1. toDial \in Seq(Names) /\ streams \in Seq(Names) /\ toDial # <<>> BY <1>1
  <2>. QED BY <2>1, MovesHead, Zenon
<1>3. CASE streams' = Append(streams, Head(toDial)) /\ toDial' = Tail(toDial) /\ UNCHANGED phase
  BY <1>1, <1>2, <1>3, Zenon DEF ClientsInv, Chosen
<1>4. CASE streams' \in {streams, Append(streams, Head(toDial))} /\ phase' = "error" /\ UNCHANGED toDial
  BY <1>1, <1>2, <1>4 DEF ClientsInv
<1>. QED BY <1>3, <1>4 DEF DialsNode

LEMMA ChooserInvHolds == NodeSpec => []ChooserInv
<1>1. NodeInit => ChooserInv BY ChooserInit DEF NodeInit
<1>2. ChooserInv /\ [NodeNext]_allVars => ChooserInv'
  <2> SUFFICES ASSUME ChooserInv, [NodeNext]_allVars PROVE ChooserInv'
    OBVIOUS
  <2>1. CASE Choose BY <2>1, ChooserKeeps DEF Choose
  <2>2. CASE UNCHANGED <<listed, answer>>
    BY <2>2 DEF ChooserInv, Chosen, Running
  <2>3. CASE DialsNode \/ Returns \/ UsesConnection \/ UNCHANGED allVars
    BY <2>2, <2>3 DEF DialsNode, Returns, UsesConnection, allVars, clientVars
  <2>4. CASE Connects
    <3>1. listed' = <<>> /\ answer' = [by |-> "none"] BY <2>4 DEF Connects
    <3>. QED BY <3>1 DEF ChooserInv, Chosen, Deciders
  <2>. QED BY <2>1, <2>3, <2>4 DEF NodeNext
<1>. QED BY <1>1, <1>2, PTL DEF NodeSpec

LEMMA ClientsInvHolds == NodeSpec => []ClientsInv
<1>1. NodeInit => ClientsInv BY DEF NodeInit, ClientsInv
<1>2. ChooserInv /\ ChooserInv' /\ ClientsInv /\ [NodeNext]_allVars => ClientsInv'
  <2> SUFFICES ASSUME ChooserInv, ChooserInv', ClientsInv, [NodeNext]_allVars PROVE ClientsInv'
    OBVIOUS
  <2>1. CASE Choose BY <2>1, ChoosePreserves
  <2>2. CASE DialsNode BY <2>2, DialPreserves
  <2>3. CASE Returns BY <2>3 DEF Returns, ClientsInv, Chosen
  <2>4. CASE Connects BY <2>4 DEF Connects, ClientsInv
  <2>5. CASE UsesConnection \/ UNCHANGED allVars
    BY <2>5 DEF UsesConnection, allVars, clientVars, ClientsInv, Chosen
  <2>. QED BY <2>1, <2>2, <2>3, <2>4, <2>5 DEF NodeNext
<1>. QED BY <1>1, <1>2, ChooserInvHolds, PTL DEF NodeSpec

\* Whoever chooses, no client is set up to a pod that does not run, nor are two
\* set up to one of the others.
THEOREM OnlyRunningPodsHolds == NodeSpec => []OnlyRunningPods
<1>1. ChooserInv => OnlyRunningPods
  <2> SUFFICES ASSUME ChooserInv, Chosen PROVE OnlyRunningPods
    BY DEF OnlyRunningPods, Chosen, Deciders
  <2>1. Splits(answer.chosen, answer.others, Running) BY DEF ChooserInv
  <2>2. ToSet(answer.others) \subseteq Running BY <2>1 DEF Splits, ToSet
  <2>. QED BY <2>1, <2>2 DEF Splits, OnlyRunningPods
<1>. QED BY <1>1, ChooserInvHolds, PTL

LEMMA PrependHolds ==
    ASSUME NEW S, NEW c, NEW o \in Seq(S), NEW s, s = <<c>> \o o
    PROVE  /\ ToSet(s) = {c} \cup ToSet(o)
           /\ IsInjective(o) /\ c \notin ToSet(o) => IsInjective(s)
<1>1. DOMAIN o = 1 .. Len(o) /\ DOMAIN s = 1 .. Len(o) + 1 /\ Len(o) \in Nat
  OBVIOUS
<1>2. s[1] = c /\ \A i \in 1 .. Len(o) : s[i + 1] = o[i]
  OBVIOUS
<1>3. \A i \in 1 .. Len(o) + 1 : i = 1 \/ \E j \in 1 .. Len(o) : i = j + 1
  <2>1. TAKE i \in 1 .. Len(o) + 1
  <2>2. i = 1 \/ (i - 1 \in 1 .. Len(o) /\ i = (i - 1) + 1) BY <1>1
  <2>. QED BY <2>2
<1>4. 1 \in 1 .. Len(o) + 1 /\ \A i \in 1 .. Len(o) : i + 1 \in 1 .. Len(o) + 1 BY <1>1
<1>5. ToSet(s) = {c} \cup ToSet(o)
  <2>1. ASSUME NEW x \in ToSet(s) PROVE x \in {c} \cup ToSet(o)
    <3>1. PICK i \in 1 .. Len(o) + 1 : x = s[i] BY <1>1, <2>1 DEF ToSet
    <3>2. CASE i = 1 BY <1>2, <3>1, <3>2
    <3>3. ASSUME NEW j \in 1 .. Len(o), i = j + 1 PROVE x \in ToSet(o)
      BY <1>1, <1>2, <3>1, <3>3 DEF ToSet
    <3>. QED BY <1>3, <3>2, <3>3
  <2>2. c \in ToSet(s) BY <1>1, <1>2, <1>4 DEF ToSet
  <2>3. ASSUME NEW x \in ToSet(o) PROVE x \in ToSet(s)
    <3>1. PICK j \in 1 .. Len(o) : x = o[j] BY <1>1, <2>3 DEF ToSet
    <3>2. x = s[j + 1] /\ j + 1 \in DOMAIN s BY <1>1, <1>2, <1>4, <3>1
    <3>. QED BY <3>2 DEF ToSet
  <2>. QED BY <2>1, <2>2, <2>3
<1>6. ASSUME IsInjective(o), c \notin ToSet(o) PROVE IsInjective(s)
  <2> SUFFICES ASSUME NEW i \in 1 .. Len(o) + 1, NEW j \in 1 .. Len(o) + 1, s[i] = s[j] PROVE i = j
    BY <1>1 DEF IsInjective
  <2>1. \A k \in 1 .. Len(o) : o[k] # c BY <1>1, <1>6 DEF ToSet
  <2>2. \A k, l \in 1 .. Len(o) : o[k] = o[l] => k = l BY <1>1, <1>6 DEF IsInjective
  <2>3. CASE i = 1 /\ j # 1
    <3>1. PICK k \in 1 .. Len(o) : j = k + 1 BY <1>3, <2>3
    <3>2. s[j] = o[k] /\ s[i] = c BY <1>2, <2>3, <3>1
    <3>. QED BY <2>1, <3>2
  <2>4. CASE i # 1 /\ j = 1
    <3>1. PICK k \in 1 .. Len(o) : i = k + 1 BY <1>3, <2>4
    <3>2. s[i] = o[k] /\ s[j] = c BY <1>2, <2>4, <3>1
    <3>. QED BY <2>1, <3>2
  <2>5. CASE i # 1 /\ j # 1
    <3>1. PICK k \in 1 .. Len(o) : i = k + 1 BY <1>3, <2>5
    <3>2. PICK l \in 1 .. Len(o) : j = l + 1 BY <1>3, <2>5
    <3>3. s[i] = o[k] /\ s[j] = o[l] BY <1>2, <3>1, <3>2
    <3>4. k = l BY <2>2, <3>3
    <3>. QED BY <3>1, <3>2, <3>4
  <2>. QED BY <2>3, <2>4, <2>5
<1>. QED BY <1>5, <1>6

\* When the sticky chooser's build has its clients, every running pod has one
\* stream opened to it, and no other pod has any.
THEOREM OneStreamPerNodeHolds == NodeSpec => []OneStreamPerNode
<1>1. ChooserInv /\ ClientsInv => OneStreamPerNode
  <2> SUFFICES ASSUME ChooserInv, ClientsInv, phase = "clients", answer.by = "sticky"
               PROVE  IsInjective(streams) /\ ToSet(streams) = Running
    BY DEF OneStreamPerNode
  <2>1. streams \in Seq(Names) /\ streams \o <<>> = <<answer.chosen>> \o answer.others BY DEF ClientsInv
  <2>2. streams = <<answer.chosen>> \o answer.others BY <2>1
  <2>3. Splits(answer.chosen, answer.others, Running) BY DEF ChooserInv, Chosen, Deciders
  <2>4. ToSet(answer.others) = Running \ {answer.chosen} BY DEF ChooserInv
  <2>5. answer.others \in Seq(Running) /\ IsInjective(answer.others) /\ answer.chosen \in Running
    BY <2>3 DEF Splits
  <2>6. /\ ToSet(streams) = {answer.chosen} \cup ToSet(answer.others)
        /\ IsInjective(answer.others) /\ answer.chosen \notin ToSet(answer.others) => IsInjective(streams)
    <3> DEFINE c == answer.chosen
               o == answer.others
    <3>1. o \in Seq(Running) /\ streams = <<c>> \o o BY <2>2, <2>5
    <3> HIDE DEF c, o
    <3>2. /\ ToSet(streams) = {c} \cup ToSet(o)
          /\ IsInjective(o) /\ c \notin ToSet(o) => IsInjective(streams)
      BY <3>1, PrependHolds
    <3>. QED BY <3>2 DEF c, o
  <2>. QED BY <2>4, <2>5, <2>6
<1>. QED BY <1>1, ChooserInvHolds, ClientsInvHolds, PTL

-----------------------------------------------------------------------------
(* One connection *)

\* The connection by itself: its users do as they like.
ConnSpec == ConnInit /\ [][ConnNext]_connVars

-----------------------------------------------------------------------------
(* Closing *)

Pipes == {"stdin", "stdout"}
CallOf == [Closers -> {"none", "Close", "CloseWrite", "CloseRead"}]
AtOf == [Closers -> {"none", "testStdin", "closeStdin", "flagStdin", "testStdout", "closeStdout",
                     "flagStdout", "done"}]

\* A flag is set only after its pipe is closed, by whomever; a Close that is
\* past a pipe has closed it or has found its flag.
CloseInv ==
    /\ call \in CallOf /\ at \in AtOf
    /\ flags \subseteq closed /\ closed \subseteq Pipes
    /\ \A c \in Closers :
          /\ at[c] = "flagStdin" => "stdin" \in closed
          /\ at[c] = "flagStdout" => "stdout" \in closed
          /\ call[c] = "Close" /\ at[c] \in {"testStdout", "closeStdout", "flagStdout", "done"} =>
                "stdin" \in closed
          /\ call[c] = "Close" /\ at[c] = "done" => "stdout" \in closed
          /\ at[c] = "none" => call[c] = "none"

LEMMA CloserKeeps ==
    ASSUME CloseInv, NEW c \in Closers, Begin(c) \/ CloserSteps(c)
    PROVE  CloseInv'
<1> USE DEF CloseInv, CallOf, AtOf, Pipes
<1>1. CASE Begin(c) BY <1>1 DEF Begin
<1>2. CASE TestsStdin(c) BY <1>2 DEF TestsStdin, CloserStep
<1>3. CASE TestsStdout(c) BY <1>3 DEF TestsStdout, CloserStep
<1>4. CASE CloseWrite(c) BY <1>4 DEF CloseWrite, CloserStep, AfterWrite
<1>5. CASE CloseRead(c) BY <1>5 DEF CloseRead, CloserStep
<1>. QED BY <1>1, <1>2, <1>3, <1>4, <1>5 DEF CloserSteps

LEMMA CloseInvHolds == ConnSpec => []CloseInv
<1>1. ConnInit => CloseInv BY DEF ConnInit, CloseInv, CallOf, AtOf, Pipes
<1>2. CloseInv /\ [ConnNext]_connVars => CloseInv'
  <2> SUFFICES ASSUME CloseInv, [ConnNext]_connVars PROVE CloseInv'
    OBVIOUS
  <2>1. CASE \E c \in Closers : Begin(c) \/ CloserSteps(c) BY <2>1, CloserKeeps
  <2>2. CASE UNCHANGED <<call, at, flags, closed>> BY <2>2 DEF CloseInv
  <2>3. CASE Writes \/ WriteFails \/ Reads \/ ReadFails \/ RemoteSends \/ Exec(TRUE)
    BY <2>2, <2>3 DEF Writes, WriteFails, Reads, ReadFails, RemoteSends, Exec, Dials, TakesInput, SendsInput,
        TakesOutput, WritesOutput, Drains, StreamReturns, RemoteExits, userVars
  <2>. QED BY <2>1, <2>2, <2>3 DEF ConnNext, connVars
<1>. QED BY <1>1, <1>2, PTL DEF ConnSpec

\* A Close that has returned leaves both pipes closed, whatever other closers
\* have done before or do meanwhile.
THEOREM CloseClosesBothHolds == ConnSpec => []CloseClosesBoth
<1>1. CloseInv => CloseClosesBoth BY DEF CloseInv, CloseClosesBoth, Closed, Pipes
<1>. QED BY <1>1, CloseInvHolds, PTL

-----------------------------------------------------------------------------
(* The streams *)

\* The copies hold at most one message each.
CopyInv ==
    /\ sent \in Nat /\ delivered \in Nat /\ produced \in Nat /\ passed \in Nat /\ received \in Nat
    /\ copyIn \in {"none", "recv"} => delivered = sent
    /\ copyIn = "send" => sent = delivered + 1
    /\ copyOut \in {"none", "recv"} => received = passed
    /\ copyOut = "write" => passed = received + 1
    /\ passed <= produced
    /\ stream = "dialling" => remote = "none" /\ copyIn = "none" /\ copyOut = "none"

LEMMA ExecKeeps ==
    ASSUME CopyInv, Exec(TRUE) \/ RemoteSends
    PROVE  CopyInv'
<1> USE DEF CopyInv, counts, execVars, remoteVars
<1>1. CASE Dials(TRUE) BY <1>1 DEF Dials
<1>2. CASE TakesInput BY <1>2 DEF TakesInput
<1>3. CASE SendsInput BY <1>3 DEF SendsInput
<1>4. CASE TakesOutput(TRUE) BY <1>4 DEF TakesOutput
<1>5. CASE WritesOutput BY <1>5 DEF WritesOutput
<1>6. CASE Drains \/ StreamReturns \/ RemoteExits(TRUE) \/ RemoteSends
  BY <1>6 DEF Drains, StreamReturns, RemoteExits, RemoteSends
<1>. QED BY <1>1, <1>2, <1>3, <1>4, <1>5, <1>6 DEF Exec

LEMMA CopyInvHolds == ConnSpec => []CopyInv
<1>1. ConnInit => CopyInv BY DEF ConnInit, CopyInv
<1>2. CopyInv /\ [ConnNext]_connVars => CopyInv'
  <2> SUFFICES ASSUME CopyInv, [ConnNext]_connVars PROVE CopyInv'
    OBVIOUS
  <2>1. CASE Exec(TRUE) \/ RemoteSends BY <2>1, ExecKeeps
  <2>2. CASE UNCHANGED <<execVars, remoteVars, counts>>
    BY <2>2 DEF CopyInv, execVars, remoteVars, counts
  <2>3. CASE Writes \/ WriteFails \/ Reads \/ ReadFails
    BY <2>2, <2>3 DEF Writes, WriteFails, Reads, ReadFails
  <2>4. ASSUME NEW c \in Closers, Begin(c) \/ CloserSteps(c) PROVE CopyInv'
    BY <2>2, <2>4 DEF Begin, CloserSteps, TestsStdin, TestsStdout, CloseWrite, CloseRead
  <2>. QED BY <2>1, <2>2, <2>3, <2>4 DEF ConnNext, connVars, execVars, remoteVars, counts
<1>. QED BY <1>1, <1>2, PTL DEF ConnSpec

EndedInv == remoteEnded \in BOOLEAN

LEMMA EndedInvHolds == ConnSpec => []EndedInv
<1>1. ConnInit => EndedInv BY Zenon DEF ConnInit, EndedInv
<1>2. EndedInv /\ [ConnNext]_connVars => EndedInv'
  <2> SUFFICES ASSUME EndedInv, [ConnNext]_connVars PROVE EndedInv'
    OBVIOUS
  <2>1. remoteEnded' = remoteEnded \/ TakesInput
    BY DEF ConnNext, Begin, CloserSteps, TestsStdin, TestsStdout, CloseWrite, CloseRead, Writes, WriteFails,
        Reads, ReadFails, RemoteSends, Exec, Dials, SendsInput, TakesOutput, WritesOutput, Drains,
        StreamReturns, RemoteExits, connVars, remoteVars
  <2>2. TakesInput => remoteEnded' = remoteEnded \/ remoteEnded' = (remoteEnded \/ remote = "runs")
    BY DEF TakesInput
  <2>3. remoteEnded' = (remoteEnded \/ remote = "runs") => remoteEnded' \in BOOLEAN
    BY Zenon
  <2>. QED BY <2>1, <2>2, <2>3 DEF EndedInv
<1>. QED BY <1>1, <1>2, PTL DEF ConnSpec

\* Closing a pipe closes one of the two streams.
LEMMA ClosersRefine ==
    ASSUME CloseInv, NEW c \in Closers, Begin(c) \/ CloserSteps(c)
    PROVE  [Promised!Next]_(Promised!vars)
<1>1. UNCHANGED <<sent, delivered, remoteEnded, produced, received, remote>>
  BY DEF Begin, CloserSteps, TestsStdin, TestsStdout, CloseWrite, CloseRead, remoteVars, counts
<1>2. CASE UNCHANGED closed BY <1>1, <1>2 DEF Promised!vars
<1>3. CASE closed' = closed \cup {"stdin"}
  <2>1. Promised!Close("send") BY <1>1, <1>3 DEF Promised!Close
  <2>. QED BY <2>1 DEF Promised!Next
<1>4. CASE closed' = closed \cup {"stdout"}
  <2>1. Promised!Close("receive") BY <1>1, <1>4 DEF Promised!Close
  <2>. QED BY <2>1 DEF Promised!Next
<1>. QED BY <1>2, <1>3, <1>4 DEF Begin, CloserSteps, TestsStdin, TestsStdout, CloseWrite, CloseRead

\* Messages go in order and arrive at most once, their end after all of them.
LEMMA ExecRefines ==
    ASSUME CopyInv, EndedInv, Exec(TRUE) \/ RemoteSends
    PROVE  [Promised!Next]_(Promised!vars)
<1> USE DEF userVars, execVars, remoteVars, counts
<1>1. CASE TakesInput
  <2>1. CASE "stdin" \notin closed
    <3>1. Promised!Send BY <1>1, <2>1 DEF TakesInput, Promised!Send
    <3>. QED BY <3>1 DEF Promised!Next
  <2>2. CASE "stdin" \in closed /\ remote = "runs"
    <3>1. remoteEnded' = (remoteEnded \/ remote = "runs") BY <1>1, <2>2 DEF TakesInput
    <3>2. remoteEnded' = TRUE BY <2>2, <3>1, Zenon
    <3>3. Promised!End BY <1>1, <2>2, <3>2 DEF TakesInput, CopyInv, Promised!End
    <3>. QED BY <3>3 DEF Promised!Next
  <2>3. CASE "stdin" \in closed /\ remote # "runs"
    <3>1. remoteEnded' = (remoteEnded \/ remote = "runs") BY <1>1, <2>3 DEF TakesInput
    <3>2. remoteEnded' = remoteEnded BY <2>3, <3>1, Zenon DEF EndedInv
    <3>. QED BY <1>1, <2>3, <3>2 DEF TakesInput, Promised!vars
  <2>. QED BY <2>1, <2>2, <2>3
<1>2. CASE SendsInput
  <2>1. CASE remote = "runs"
    <3>1. Promised!Deliver BY <1>2, <2>1 DEF SendsInput, CopyInv, Promised!Deliver
    <3>. QED BY <3>1 DEF Promised!Next
  <2>2. CASE remote # "runs" BY <1>2, <2>2 DEF SendsInput, Promised!vars
  <2>. QED BY <2>1, <2>2
<1>3. CASE WritesOutput
  <2>1. CASE "stdout" \notin closed
    <3>1. Promised!Receive BY <1>3, <2>1 DEF WritesOutput, CopyInv, Promised!Receive
    <3>. QED BY <3>1 DEF Promised!Next
  <2>2. CASE "stdout" \in closed BY <1>3, <2>2 DEF WritesOutput, Promised!vars
  <2>. QED BY <2>1, <2>2
<1>4. CASE RemoteSends
  <2>1. Promised!Produce BY <1>4 DEF RemoteSends, Promised!Produce
  <2>. QED BY <2>1 DEF Promised!Next
<1>5. CASE RemoteExits(TRUE)
  <2>1. Promised!Disappear BY <1>5 DEF RemoteExits, Promised!Disappear
  <2>. QED BY <2>1 DEF Promised!Next
<1>6. CASE Dials(TRUE) BY <1>6 DEF Dials, CopyInv, Promised!vars
<1>7. CASE TakesOutput(TRUE) \/ Drains \/ StreamReturns
  BY <1>7 DEF TakesOutput, Drains, StreamReturns, Promised!vars
<1>. QED BY <1>1, <1>2, <1>3, <1>4, <1>5, <1>6, <1>7 DEF Exec

\* The pipes, exec.Stream and the closers implement what a client expects of a
\* connection.
THEOREM ConnectionImplemented == ConnSpec => ImplementsConnection
<1>1. ConnInit => Promised!Init BY DEF ConnInit, Promised!Init
<1>2. CloseInv /\ CopyInv /\ EndedInv /\ [ConnNext]_connVars => [Promised!Next]_(Promised!vars)
  <2> SUFFICES ASSUME CloseInv, CopyInv, EndedInv, [ConnNext]_connVars PROVE [Promised!Next]_(Promised!vars)
    OBVIOUS
  <2>1. CASE Exec(TRUE) \/ RemoteSends BY <2>1, ExecRefines
  <2>2. ASSUME NEW c \in Closers, Begin(c) \/ CloserSteps(c) PROVE [Promised!Next]_(Promised!vars)
    BY <2>2, ClosersRefine
  <2>3. CASE Writes \/ WriteFails \/ Reads \/ ReadFails \/ UNCHANGED connVars
    BY <2>3 DEF Writes, WriteFails, Reads, ReadFails, connVars, execVars, remoteVars, counts, Promised!vars
  <2>. QED BY <2>1, <2>2, <2>3 DEF ConnNext
<1>. QED BY <1>1, <1>2, CloseInvHolds, CopyInvHolds, EndedInvHolds, PTL DEF ConnSpec, ImplementsConnection, Promised!Spec

-----------------------------------------------------------------------------
(* A build that uses the connection to its chosen pod *)

\* The clients step the connection as its users may, or leave it alone.
THEOREM ClientsUseConnection == NodeSpec => ConnSpec
<1>1. NodeInit => ConnInit BY DEF NodeInit
<1>2. [NodeNext]_allVars => [ConnNext]_connVars
  <2> SUFFICES ASSUME [NodeNext]_allVars PROVE ConnNext \/ UNCHANGED connVars
    OBVIOUS
  <2>1. CASE Choose \/ DialsNode \/ Returns \/ Connects
    BY <2>1 DEF Choose, DialsNode, Returns, Connects
  <2>2. CASE UsesConnection BY <2>2 DEF UsesConnection
  <2>3. CASE UNCHANGED allVars BY <2>3 DEF allVars
  <2>. QED BY <2>1, <2>2, <2>3 DEF NodeNext
<1>. QED BY <1>1, <1>2, PTL DEF NodeSpec, ConnSpec

\* A blocked Write can still count as sent.
ConnInv ==
    /\ writer \in {"idle", "writing", "failed"} /\ reader \in {"idle", "reading", "failed"}
    /\ copyIn \in {"none", "recv", "send", "done"} /\ copyOut \in {"none", "recv", "write", "drain", "done"}
    /\ stream \in {"dialling", "copying", "returned"} /\ remote \in {"none", "runs", "gone"}
    /\ sent <= Messages /\ produced <= Messages
    /\ writer = "writing" => sent < Messages
    /\ delivered <= sent /\ received <= passed

LEMMA ConnInvStep ==
    ASSUME CopyInv, ConnInv, [ConnNext]_connVars
    PROVE  ConnInv'
<1> USE ConnAssumption DEF ConnInv, CopyInv, counts, execVars, remoteVars, userVars
<1>1. CASE Writes \/ WriteFails \/ Reads \/ ReadFails \/ RemoteSends
  BY <1>1 DEF Writes, WriteFails, Reads, ReadFails, RemoteSends
<1>2. CASE Dials(TRUE) BY <1>2 DEF Dials
<1>3. CASE TakesInput BY <1>3 DEF TakesInput
<1>4. CASE SendsInput BY <1>4 DEF SendsInput
<1>5. CASE TakesOutput(TRUE) BY <1>5 DEF TakesOutput
<1>6. CASE WritesOutput BY <1>6 DEF WritesOutput
<1>7. CASE Drains \/ StreamReturns \/ RemoteExits(TRUE)
  BY <1>7 DEF Drains, StreamReturns, RemoteExits
<1>8. CASE UNCHANGED <<writer, reader, execVars, remoteVars, counts>> BY <1>8
<1>9. ASSUME NEW c \in Closers, Begin(c) \/ CloserSteps(c) PROVE ConnInv'
  BY <1>8, <1>9 DEF Begin, CloserSteps, TestsStdin, TestsStdout, CloseWrite, CloseRead
<1>. QED BY <1>1, <1>2, <1>3, <1>4, <1>5, <1>6, <1>7, <1>8, <1>9 DEF ConnNext, Exec, connVars

LEMMA ConnTypesHold == ConnSpec => []ConnTypes
<1>1. ConnInit => ConnInv BY ConnAssumption DEF ConnInit, ConnInv
<1>2. ConnSpec => []ConnInv BY <1>1, ConnInvStep, CopyInvHolds, PTL DEF ConnSpec
<1>3. ConnInv /\ CopyInv /\ CloseInv /\ EndedInv => ConnTypes
  <2> SUFFICES ASSUME ConnInv, CopyInv, CloseInv, EndedInv PROVE ConnTypes
    OBVIOUS
  <2>1. {sent, delivered, produced, passed, received} \subseteq 0 .. Messages
    BY ConnAssumption DEF ConnInv, CopyInv
  <2>2. /\ call \in [Closers -> {"none", "Close", "CloseWrite", "CloseRead"}]
        /\ at \in [Closers -> {"none", "testStdin", "closeStdin", "flagStdin", "testStdout", "closeStdout",
                               "flagStdout", "done"}]
        /\ flags \subseteq {"stdin", "stdout"} /\ closed \subseteq {"stdin", "stdout"}
    BY DEF CloseInv, CallOf, AtOf, Pipes
  <2>3. remoteEnded \in BOOLEAN BY DEF EndedInv
  <2>. QED BY <2>1, <2>2, <2>3 DEF ConnTypes, ConnInv
<1>. QED BY <1>2, <1>3, CopyInvHolds, CloseInvHolds, EndedInvHolds, PTL

\* The type invariant of every variable of the clients and of the connection.
THEOREM TypesOKHolds == NodeSpec => []TypesOK
<1>1. ChooserInv => TypeOK
  <2> SUFFICES ASSUME ChooserInv PROVE TypeOK
    OBVIOUS
  <2>1. ToSet(listed) \subseteq Pods BY DEF ChooserInv, ToSet
  <2>. QED BY <2>1 DEF ChooserInv, Deciders, TypeOK, Pods
<1>2. ClientsInv => phase \in {"choose", "dial", "clients", "connected", "error"}
                    /\ toDial \in Seq(Names) /\ streams \in Seq(Names)
  BY DEF ClientsInv
<1>3. ChooserInv /\ ClientsInv /\ ConnTypes => TypesOK BY <1>1, <1>2, Zenon DEF TypesOK
<1>. QED BY <1>3, ChooserInvHolds, ClientsInvHolds, ConnTypesHold, ClientsUseConnection, PTL

\* What holds of any use of a connection holds of the build's: a Close that has
\* returned leaves both pipes closed, and the client's view of it is kept.
THEOREM ClientsConnectionHolds == NodeSpec => []CloseClosesBoth /\ ImplementsConnection
BY ClientsUseConnection, CloseClosesBothHolds, ConnectionImplemented, PTL
=================================================================================
