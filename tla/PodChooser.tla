------------------------------- MODULE PodChooser -------------------------------
(***************************************************************************)
(* Which of the builder's pods a build uses (podchooser.go).  Pods are told *)
(* apart by their names, here their ranks in the sort order.                *)
(***************************************************************************)
EXTENDS Naturals, Sequences, FiniteSets, SequencesExt

CONSTANTS
    Names,     \* names of pods
    Preferred  \* [SUBSET Names -> Names]: where the hash ring puts the sticky key

ASSUME ChooserAssumption ==
    /\ Names \subseteq Nat /\ IsFiniteSet(Names)
    /\ \A S \in SUBSET Names : S # {} => Preferred[S] \in S

VARIABLES
    listed,   \* the pods the API server lists: [name, phase]
    answer    \* "none", or what ChoosePod returned

vars == <<listed, answer>>

\* Pods are listed in any order.
Init ==
    /\ \E S \in SUBSET Names : \E order \in SetToSeqs(S) : \E phase \in [S -> {"Running", "Pending"}] :
          listed = [i \in 1 .. Len(order) |-> [name |-> order[i], phase |-> phase[order[i]]]]
    /\ answer = [by |-> "none"]

\* sort.Slice by name, of pods whose names differ.
Sorted(S) == CHOOSE s \in SetToSeqs(S) : \A i, j \in DOMAIN s : i < j => s[i] < s[j]

\* Mutants of ListRunningPods: pods in any phase; a slice made with a length
\* before it is appended to, which starts with a nil pod.
ListPods == Sorted({p.name : p \in ToSet(listed)})
ListPaddedPods == <<0>> \o ListPods

\* The pods in phase Running, and ListRunningPods: their names, sorted.
Running == {p.name : p \in {q \in ToSet(listed) : q.phase = "Running"}}

ListRunningPods == Sorted(Running)

Answer(by, chosen, others) == answer' = [by |-> by, chosen |-> chosen, others |-> others]

NoPods == ListRunningPods = <<>> /\ answer' = [by |-> "error"]

\* append(pods[0:n], pods[n+1:]...) shifts the tail within pods' own array.
Shifted(pods, n) == [i \in DOMAIN pods |-> IF i < n \/ i = Len(pods) THEN pods[i] ELSE pods[i + 1]]

\* return pods[n], append(...): Go leaves open which operand comes first, and
\* its compiler runs the append first.
RandomChoosePod ==
    \E n \in DOMAIN ListRunningPods :
       LET array == Shifted(ListRunningPods, n) IN
       \E first \in {"index", "append"} :
          Answer("random",
                 IF first = "index" THEN ListRunningPods[n] ELSE array[n],
                 SubSeq(array, 1, Len(array) - 1))

StickyChoosePod ==
    /\ Running # {}
    /\ LET chosen == Preferred[Running] IN
       Answer("sticky", chosen, Sorted(Running \ {chosen}))

Next ==
    /\ answer.by = "none"
    /\ NoPods \/ RandomChoosePod \/ StickyChoosePod
    /\ UNCHANGED listed

Spec == Init /\ [][Next]_vars

-----------------------------------------------------------------------------
(* Properties *)

\* The type invariant.
TypeOK ==
    /\ ToSet(listed) \subseteq [name : Names, phase : {"Running", "Pending"}]
    /\ answer \in [by : {"none", "error"}]
                  \cup [by : {"random", "sticky"}, chosen : Names, others : Seq(Names)]

\* Whoever chooses, no client is set up to a pod that does not run, nor are two
\* set up to one of the others.
OnlyRunningPods ==
    answer.by \in {"random", "sticky"} =>
        /\ {answer.chosen} \cup ToSet(answer.others) \subseteq Running
        /\ IsInjective(answer.others)

-----------------------------------------------------------------------------
(* What a comment says, and the code does not do *)

\* "Returns the selected pod, and zero or more other unselected pods"
\* (podchooser.go:21), of every chooser: the running pods, each of them once.
EverySplits ==
    answer.by \in {"random", "sticky"} =>
        /\ answer.chosen \notin ToSet(answer.others)
        /\ {answer.chosen} \cup ToSet(answer.others) = Running
=============================================================================
