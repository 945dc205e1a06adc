---------------------------- MODULE InputsProofs ----------------------------
(***************************************************************************)
(* Theorems about what an experiment is made from and what its gateway     *)
(* gets back: TextsGivenBack of VllmChoices, for batches of any size and   *)
(* any number of faults; PromptsFit of PromptSet, for any seeds and        *)
(* buckets; ArrivalsExact of Arrivals, for any rates and gaps;             *)
(* AcceptedRuns of ExperimentConfig, for any values of its fields.         *)
(***************************************************************************)
EXTENDS MCInputs, SequenceTheorems, FiniteSetTheorems,
        WellFoundedInduction, TLAPS

-----------------------------------------------------------------------------
(* The choices of a response                                               *)

(* What a choice can be.                                                   *)
ChoiceSet == [index : Int \union {NoIndex, BadIndex},
              text : 0..(n - 1) \union {NoText}]

(* A label that is still there is the right one.                           *)
Faithful(c) == c.index \in 0..(n - 1) => c.text \in {c.index, NoText}

LabelInv == \A k \in 1..Len(choices) : Faithful(choices[k])

(* Nothing has left its place unless it was moved or lost; a choice that   *)
(* is repeated comes after the others.                                     *)
PlaceInv ==
    Range(faults) \cap {"order", "lost"} = {} =>
        /\ Len(choices) >= n
        /\ \A k \in 1..n : choices[k].text \in {k - 1, NoText}

Inv == TypeOK /\ LabelInv /\ PlaceInv /\ OrderIsNoError

-----------------------------------------------------------------------------
(* As many distinct numbers as there are places fill every place: the last *)
(* error of _order_choices, that the indices do not cover every request,   *)
(* is never raised.                                                        *)
LEMMA LabelsCover ==
    ASSUME NEW count \in Nat, NEW cs, Len(cs) = count, Labelled(cs, count),
           NEW p \in 1..count
    PROVE  \E k \in 1..count : cs[k].index = p - 1
<1> DEFINE S == 1..count
           T == 0..(count - 1)
           f == Indices(cs)
<1>1. f \in Injection(S, T)
  <2>1. f = [k \in S |-> cs[k].index]
    BY DEF Indices
  <2>2. \A k \in S : f[k] \in T
    BY <2>1 DEF Labelled, Range
  <2>3. f \in [S -> T] /\ IsInjective(f)
    BY <2>1, <2>2 DEF Labelled
  <2> QED
    BY <2>3 DEF Injection
<1>2. /\ IsFiniteSet(S) /\ IsFiniteSet(T)
      /\ Cardinality(S) = Cardinality(T)
  BY FS_Interval
<1>3. f \in Surjection(S, T)
  BY <1>1, <1>2, FS_Injection
<1>4. p - 1 \in T
  OBVIOUS
<1>5. \E k \in S : f[k] = p - 1
  BY <1>3, <1>4 DEF Surjection
<1> QED
  BY <1>5 DEF Indices

LEMMA AppendRange ==
    ASSUME NEW S, NEW s \in Seq(S), NEW e \in S
    PROVE  Range(Append(s, e)) = Range(s) \union {e}
<1>1. /\ DOMAIN Append(s, e) = 1..(Len(s) + 1)
      /\ \A k \in 1..Len(s) : Append(s, e)[k] = s[k]
      /\ Append(s, e)[Len(s) + 1] = e
      /\ Len(s) \in Nat /\ DOMAIN s = 1..Len(s)
  OBVIOUS
<1> QED
  BY <1>1 DEF Range

(* What is left after one element was taken out was there before.          *)
LEMMA RemovedFrom ==
    ASSUME NEW S, NEW s \in Seq(S), NEW k \in 1..Len(s)
    PROVE  /\ RemoveAt(s, k) \in Seq(S)
           /\ \A i \in 1..Len(RemoveAt(s, k)) :
                \E j \in 1..Len(s) : RemoveAt(s, k)[i] = s[j]
<1> DEFINE left == SubSeq(s, 1, k - 1)
           right == SubSeq(s, k + 1, Len(s))
<1>1. Len(s) \in Nat /\ \A i \in 1..Len(s) : s[i] \in S
  OBVIOUS
<1>2. /\ left \in Seq(S) /\ Len(left) = k - 1
      /\ \A i \in 1..(k - 1) : left[i] = s[i]
  BY <1>1, SubSeqProperties
<1>3. /\ right \in Seq(S) /\ Len(right) = Len(s) - k
      /\ \A i \in 1..(Len(s) - k) : right[i] = s[k + i]
  BY <1>1, SubSeqProperties
<1> HIDE DEF left, right
<1>4. RemoveAt(s, k) = left \o right
  BY DEF RemoveAt, left, right
<1>5. /\ left \o right \in Seq(S)
      /\ Len(left \o right) = Len(left) + Len(right)
      /\ \A i \in 1..(Len(left) + Len(right)) : (left \o right)[i] =
            IF i <= Len(left) THEN left[i] ELSE right[i - Len(left)]
  BY <1>2, <1>3, ConcatProperties
<1>6. ASSUME NEW i \in 1..(Len(s) - 1)
      PROVE  \E j \in 1..Len(s) : (left \o right)[i] = s[j]
  <2>1. CASE i <= k - 1
    <3>1. (left \o right)[i] = s[i]
      BY <1>1, <1>2, <1>3, <1>5, <2>1
    <3> QED
      BY <1>1, <3>1
  <2>2. CASE ~(i <= k - 1)
    <3>1. /\ i - (k - 1) \in 1..(Len(s) - k)
          /\ k + (i - (k - 1)) = i + 1 /\ i + 1 \in 1..Len(s)
      BY <1>1, <2>2
    <3>2. (left \o right)[i] = right[i - (k - 1)]
      BY <1>1, <1>2, <1>3, <1>5, <2>2
    <3>3. right[i - (k - 1)] = s[i + 1]
      BY <1>3, <3>1
    <3> QED
      BY <3>1, <3>2, <3>3
  <2> QED
    BY <2>1, <2>2
<1>7. Len(left \o right) = Len(s) - 1
  BY <1>1, <1>2, <1>3, <1>5
<1> QED
  BY <1>4, <1>5, <1>6, <1>7

LEMMA InitInv == Init => Inv
<1> SUFFICES ASSUME Init PROVE Inv
  OBVIOUS
<1> USE VllmAssumption
<1>1. PICK labels \in BOOLEAN : choices =
        [k \in 1..n |-> Choice(IF labels THEN k - 1 ELSE NoIndex, k - 1)]
  BY DEF Init
<1>2. n \in 1..MaxPrompts /\ n \in Nat /\ faults = <<>>
  BY DEF Init
<1>3. \A k \in 1..n : choices[k] \in ChoiceSet
  BY <1>1, <1>2 DEF Choice, ChoiceSet
<1>4. choices \in Seq(ChoiceSet) /\ Len(choices) = n
  BY <1>1, <1>2, <1>3
<1>5. TypeOK
  BY <1>2, <1>4 DEF TypeOK, ChoiceSet
<1>6. LabelInv
  BY <1>1, <1>2, <1>4 DEF LabelInv, Faithful, Choice
<1>7. PlaceInv
  BY <1>1, <1>2, <1>4 DEF PlaceInv, Choice
<1>8. OrderIsNoError
  <2>1. \A k \in 1..n : choices[k].text = k - 1 /\ k - 1 # NoText
    BY <1>1, <1>2 DEF Choice
  <2>2. CASE labels
    <3>1. Indices(choices) = [k \in 1..n |-> k - 1]
      BY <1>1, <1>4, <2>2 DEF Indices, Choice
    <3>2. Labelled(choices, n)
      BY <1>2, <3>1 DEF Labelled, IsInjective, Range
    <3> QED
      BY <1>4, <2>1, <3>2 DEF OrderIsNoError, Accepted
  <2>3. CASE ~labels
    <3>1. Unlabelled(choices)
      BY <1>1, <1>4, <2>3 DEF Unlabelled, Choice
    <3> QED
      BY <1>4, <2>1, <3>1 DEF OrderIsNoError, Accepted
  <2> QED
    BY <2>2, <2>3
<1> QED
  BY <1>5, <1>6, <1>7, <1>8 DEF Inv

(* A step keeps the labels if each choice after it was there before, or    *)
(* has lost its label or its text.                                         *)
LEMMA LabelsKept ==
    ASSUME Inv, n' = n, choices' \in Seq(ChoiceSet),
           \A k \in 1..Len(choices') : \E j \in 1..Len(choices) :
                \/ choices'[k] = choices[j]
                \/ choices'[k].index \notin 0..(n - 1)
                \/ /\ choices'[k].index = choices[j].index
                   /\ choices'[k].text = NoText
    PROVE  LabelInv'
BY DEF Inv, LabelInv, Faithful

(* Changing the order of two choices does not make an answer unacceptable. *)
LEMMA SwapAccepted ==
    ASSUME NEW cs \in Seq(ChoiceSet), NEW count \in Nat,
           Accepted(cs, count), NEW j \in 1..Len(cs), NEW k \in 1..Len(cs)
    PROVE  Accepted([cs EXCEPT ![j] = cs[k], ![k] = cs[j]], count)
<1> DEFINE ds == [cs EXCEPT ![j] = cs[k], ![k] = cs[j]]
           at == [i \in 1..Len(cs) |->
                    IF i = k THEN j ELSE IF i = j THEN k ELSE i]
<1>1. Len(cs) \in Nat /\ DOMAIN cs = 1..Len(cs)
  OBVIOUS
<1>2. ds \in Seq(ChoiceSet) /\ Len(ds) = Len(cs)
  <2>1. /\ cs[j] \in ChoiceSet /\ cs[k] \in ChoiceSet
    OBVIOUS
  <2> QED
    BY <2>1
<1>3. \A i \in 1..Len(cs) : at[i] \in 1..Len(cs) /\ ds[i] = cs[at[i]]
  BY <1>1
<1>4. \A h, i \in 1..Len(cs) : at[h] = at[i] => h = i
  OBVIOUS
<1> HIDE DEF ds, at
<1>5. CASE Unlabelled(cs)
  <2>1. Unlabelled(ds)
    BY <1>2, <1>3, <1>5 DEF Unlabelled
  <2> QED
    BY <1>2, <1>3, <2>1 DEF Accepted, ds
<1>6. CASE Labelled(cs, count)
  <2>1. /\ DOMAIN Indices(cs) = 1..Len(cs) /\ DOMAIN Indices(ds) = 1..Len(cs)
        /\ \A i \in 1..Len(cs) : Indices(cs)[i] = cs[i].index
        /\ \A i \in 1..Len(cs) : Indices(ds)[i] = Indices(cs)[at[i]]
    BY <1>2, <1>3 DEF Indices
  <2>2. Range(Indices(ds)) \subseteq 0..(count - 1)
    BY <1>3, <1>6, <2>1 DEF Labelled, Range
  <2>3. IsInjective(Indices(ds))
    BY <1>3, <1>4, <1>6, <2>1 DEF Labelled, IsInjective
  <2> QED
    BY <1>2, <1>3, <2>2, <2>3 DEF Accepted, Labelled, ds
<1> QED
  BY <1>5, <1>6 DEF Accepted

Kinds == {"order", "lost", "twice", "label", "text"}

LEMMA StepInv == Inv /\ [Next]_vars => Inv'
<1> SUFFICES ASSUME Inv, [Next]_vars PROVE Inv'
  OBVIOUS
<1> USE VllmAssumption
<1>1. /\ n \in 1..MaxPrompts /\ n \in Nat /\ faults \in Seq(Kinds)
      /\ choices \in Seq(ChoiceSet) /\ Len(choices) \in Nat
  BY DEF Inv, TypeOK, ChoiceSet, Kinds
<1>2. ASSUME NEW f \in Kinds, Fault(f)
      PROVE  /\ faults' \in Seq(Kinds)
             /\ Range(faults') = Range(faults) \union {f}
  BY <1>1, <1>2, AppendRange DEF Fault
<1>3. ASSUME UNCHANGED n, faults' \in Seq(Kinds), choices' \in Seq(ChoiceSet)
      PROVE  TypeOK'
  BY <1>1, <1>3 DEF TypeOK, ChoiceSet, Kinds
<1>4. CASE Swap /\ UNCHANGED n
  <2>1. PICK j, k \in Positions :
            /\ Fault("order")
            /\ choices' = [choices EXCEPT ![j] = choices[k],
                                          ![k] = choices[j]]
    BY <1>4 DEF Swap
  <2>2. /\ choices' \in Seq(ChoiceSet) /\ Len(choices') = Len(choices)
        /\ \A i \in 1..Len(choices) :
            choices'[i] \in {choices[i], choices[j], choices[k]}
    BY <1>1, <2>1 DEF Positions
  <2>3. "order" \in Range(faults') /\ faults' \in Seq(Kinds)
    BY <1>2, <2>1 DEF Kinds
  <2>4. LabelInv'
    BY <1>4, <2>1, <2>2, LabelsKept DEF Positions
  <2>5. OrderIsNoError'
    BY <1>1, <1>2, <1>4, <2>1, SwapAccepted
        DEF Inv, OrderIsNoError, Positions, Kinds
  <2>6. TypeOK'
    BY <1>3, <1>4, <2>2, <2>3
  <2>7. PlaceInv'
    BY <2>3 DEF PlaceInv
  <2> QED
    BY <2>4, <2>5, <2>6, <2>7 DEF Inv
<1>5. CASE Drop /\ UNCHANGED n
  <2>1. PICK k \in Positions :
            Fault("lost") /\ choices' = RemoveAt(choices, k)
    BY <1>5 DEF Drop
  <2>2. /\ choices' \in Seq(ChoiceSet)
        /\ \A i \in 1..Len(choices') :
            \E j \in 1..Len(choices) : choices'[i] = choices[j]
    <3>1. choices \in Seq(ChoiceSet) /\ k \in 1..Len(choices)
      BY <1>1, <2>1 DEF Positions
    <3>2. /\ RemoveAt(choices, k) \in Seq(ChoiceSet)
          /\ \A i \in 1..Len(RemoveAt(choices, k)) :
                \E j \in 1..Len(choices) : RemoveAt(choices, k)[i] = choices[j]
      BY <3>1, RemovedFrom, SMTT(60)
    <3>3. choices' = RemoveAt(choices, k)
      BY <2>1
    <3> QED
      BY <3>2, <3>3, Zenon
  <2>3. "lost" \in Range(faults') /\ faults' \in Seq(Kinds)
    BY <1>2, <2>1 DEF Kinds
  <2>4. LabelInv'
    BY <1>5, <2>2, LabelsKept
  <2> QED
    BY <1>3, <1>5, <2>2, <2>3, <2>4 DEF Inv, PlaceInv, OrderIsNoError
<1>6. CASE Repeat /\ UNCHANGED n
  <2>1. PICK k \in Positions :
            Fault("twice") /\ choices' = Append(choices, choices[k])
    BY <1>6 DEF Repeat
  <2>2. /\ choices' \in Seq(ChoiceSet)
        /\ Len(choices') = Len(choices) + 1
        /\ choices'[Len(choices) + 1] = choices[k]
        /\ \A i \in 1..Len(choices) : choices'[i] = choices[i]
    BY <1>1, <2>1, AppendProperties DEF Positions
  <2>3. /\ Range(faults') = Range(faults) \union {"twice"}
        /\ faults' \in Seq(Kinds)
    BY <1>2, <2>1 DEF Kinds
  <2>4. LabelInv'
    <3>1. k \in 1..Len(choices)
      BY <2>1 DEF Positions
    <3>2. ASSUME NEW i \in 1..Len(choices')
          PROVE  \E j \in 1..Len(choices) : choices'[i] = choices[j]
      <4>1. i \in 1..Len(choices) \/ i = Len(choices) + 1
        BY <1>1, <2>2
      <4> QED
        BY <2>2, <3>1, <4>1
    <3> QED
      BY <1>6, <2>2, <3>2, LabelsKept
  <2>5. PlaceInv'
    <3> SUFFICES ASSUME Range(faults) \cap {"order", "lost"} = {}
                 PROVE  /\ Len(choices') >= n
                        /\ \A i \in 1..n : choices'[i].text \in {i - 1, NoText}
      BY <1>6, <2>3 DEF PlaceInv
    <3>1. Len(choices) >= n /\ \A i \in 1..n : i \in 1..Len(choices)
      BY <1>1 DEF Inv, PlaceInv
    <3>2. \A i \in 1..n : choices'[i] = choices[i]
      BY <2>2, <3>1
    <3> QED
      BY <1>1, <2>2, <3>1, <3>2 DEF Inv, PlaceInv
  <2>6. OrderIsNoError'
    <3>1. "twice" \in Range(faults') /\ "twice" \notin {"order"}
      BY <2>3
    <3> QED
      BY <3>1 DEF OrderIsNoError
  <2>7. TypeOK'
    BY <1>3, <1>6, <2>2, <2>3
  <2> QED
    BY <2>4, <2>5, <2>6, <2>7 DEF Inv
<1>7. CASE Relabel /\ UNCHANGED n
  <2>1. PICK k \in Positions, label \in {-1, n, NoIndex, BadIndex} :
            Fault("label") /\ choices' = [choices EXCEPT ![k].index = label]
    BY <1>7 DEF Relabel
  <2>2. /\ choices' \in Seq(ChoiceSet) /\ Len(choices') = Len(choices)
        /\ choices'[k].index = label
        /\ \A i \in 1..Len(choices) :
            /\ choices'[i].text = choices[i].text
            /\ i # k => choices'[i] = choices[i]
    <3>1. choices[k] \in ChoiceSet /\ k \in 1..Len(choices)
      BY <1>1, <2>1 DEF Positions
    <3>2. label \in Int \union {NoIndex, BadIndex}
      BY <1>1, <2>1
    <3> DEFINE new == [choices[k] EXCEPT !.index = label]
    <3>3. new \in ChoiceSet /\ new.index = label /\ new.text = choices[k].text
      BY <3>1, <3>2 DEF ChoiceSet
    <3>4. choices' = [choices EXCEPT ![k] = new]
      BY <2>1
    <3> HIDE DEF new
    <3> QED
      BY <1>1, <3>1, <3>3, <3>4
  <2>3. /\ Range(faults') = Range(faults) \union {"label"}
        /\ faults' \in Seq(Kinds)
    BY <1>2, <2>1 DEF Kinds
  <2>4. label \notin 0..(n - 1)
    BY <1>1, <2>1
  <2>5. LabelInv'
    BY <1>1, <1>7, <2>2, <2>4, LabelsKept
  <2>6. PlaceInv'
    <3> SUFFICES ASSUME Range(faults) \cap {"order", "lost"} = {}
                 PROVE  /\ Len(choices') >= n
                        /\ \A i \in 1..n : choices'[i].text \in {i - 1, NoText}
      BY <1>7, <2>3 DEF PlaceInv
    <3>1. Len(choices) >= n /\ \A i \in 1..n : i \in 1..Len(choices)
      BY <1>1 DEF Inv, PlaceInv
    <3>2. \A i \in 1..n : choices'[i].text = choices[i].text
      BY <2>2, <3>1
    <3> QED
      BY <1>1, <2>2, <3>1, <3>2 DEF Inv, PlaceInv
  <2>7. TypeOK'
    BY <1>3, <1>7, <2>2, <2>3
  <2>8. OrderIsNoError'
    BY <2>3, SMTT(30) DEF OrderIsNoError
  <2> QED
    BY <2>5, <2>6, <2>7, <2>8 DEF Inv
<1>8. CASE Garble /\ UNCHANGED n
  <2>1. PICK k \in Positions :
            Fault("text") /\ choices' = [choices EXCEPT ![k].text = NoText]
    BY <1>8 DEF Garble
  <2>2. /\ choices' \in Seq(ChoiceSet) /\ Len(choices') = Len(choices)
        /\ choices'[k].text = NoText
        /\ choices'[k].index = choices[k].index
        /\ \A i \in 1..Len(choices) : i # k => choices'[i] = choices[i]
    <3>1. choices[k] \in ChoiceSet /\ k \in 1..Len(choices)
      BY <1>1, <2>1 DEF Positions
    <3> DEFINE new == [choices[k] EXCEPT !.text = NoText]
    <3>2. /\ new \in ChoiceSet /\ new.text = NoText
          /\ new.index = choices[k].index
      BY <3>1 DEF ChoiceSet
    <3>3. choices' = [choices EXCEPT ![k] = new]
      BY <2>1
    <3> HIDE DEF new
    <3> QED
      BY <1>1, <3>1, <3>2, <3>3
  <2>3. /\ Range(faults') = Range(faults) \union {"text"}
        /\ faults' \in Seq(Kinds)
    BY <1>2, <2>1 DEF Kinds
  <2>4. LabelInv'
    BY <1>1, <1>8, <2>2, LabelsKept
  <2>5. PlaceInv'
    BY <1>1, <1>8, <2>2, <2>3 DEF Inv, PlaceInv
  <2> QED
    BY <1>3, <1>8, <2>2, <2>3, <2>4, <2>5 DEF Inv, OrderIsNoError
<1>9. CASE UNCHANGED vars
  BY <1>9 DEF vars, Inv, TypeOK, LabelInv, Faithful, PlaceInv,
      OrderIsNoError, Accepted, Unlabelled, Labelled, Indices
<1> QED
  BY <1>4, <1>5, <1>6, <1>7, <1>8, <1>9 DEF Next

LEMMA InvOwnText == Inv => OwnText
<1> SUFFICES ASSUME Inv, Accepted(choices, n) PROVE
        \/ \A p \in 1..n : Outputs[p] = p - 1
        \/ Unlabelled(choices) /\ Range(faults) \cap {"order", "lost"} # {}
  BY DEF OwnText
<1> USE VllmAssumption
<1>1. n \in Nat /\ Len(choices) = n
  BY DEF Inv, TypeOK, Accepted
<1>2. \A k \in 1..n : choices[k].text # NoText
  BY <1>1 DEF Accepted
<1>3. CASE Unlabelled(choices)
  <2>1. SUFFICES ASSUME Range(faults) \cap {"order", "lost"} = {},
                        NEW p \in 1..n
                 PROVE  Outputs[p] = p - 1
    BY <1>3
  <2>2. Outputs[p] = choices[p].text
    BY <1>3 DEF Outputs, Ordered
  <2> QED
    BY <1>2, <2>1, <2>2 DEF Inv, PlaceInv
<1>4. CASE ~Unlabelled(choices)
  <2>1. SUFFICES ASSUME NEW p \in 1..n PROVE Outputs[p] = p - 1
    OBVIOUS
  <2>2. Labelled(choices, n)
    BY <1>4 DEF Accepted
  <2>3. \E k \in 1..n : choices[k].index = p - 1
    BY <1>1, <2>2, LabelsCover
  <2> DEFINE q == CHOOSE k \in 1..n : choices[k].index = p - 1
  <2>4. q \in 1..n /\ choices[q].index = p - 1
    BY <2>3
  <2>5. Outputs[p] = choices[q].text
    BY <1>1, <1>4 DEF Outputs, Ordered
  <2>6. choices[q].text \in {p - 1, NoText}
    BY <1>1, <2>4 DEF Inv, LabelInv, Faithful
  <2> QED
    BY <1>2, <2>4, <2>5, <2>6
<1> QED
  BY <1>3, <1>4

(* Through any number of faults in a response no caller gets the           *)
(* completion of another prompt, and no order of a complete response is an *)
(* error: _parse_outputs and _order_choices of backends/vllm.py.           *)
THEOREM EveryTextGivenBack == Spec => []TextsGivenBack
<1>1. Spec => []Inv
  BY InitInv, StepInv, PTL DEF Spec
<1>2. Inv => TextsGivenBack
  BY InvOwnText DEF Inv, TextsGivenBack
<1> QED
  BY <1>1, <1>2, PTL

-----------------------------------------------------------------------------
(* The prompts                                                             *)

LEMMA SameCount == \A S : Prompts!Cardinality(S) = Cardinality(S)
BY DEF Prompts!Cardinality, Cardinality

LEMMA Division ==
    ASSUME NEW a \in Nat, NEW b \in Nat \ {0}
    PROVE  /\ a \div b \in Nat /\ a % b \in 0..(b - 1)
           /\ a = b * (a \div b) + (a % b)
OBVIOUS

(* Products keep an order.                                                 *)
LEMMA Products ==
    ASSUME NEW a \in Nat, NEW x \in Nat, NEW y \in Nat, x < y
    PROVE  a * x + a <= a * y /\ a * x \in Nat /\ a * y \in Nat
<1> DEFINE d == y - x - 1
<1>1. d \in Nat /\ y = x + 1 + d
  OBVIOUS
<1> HIDE DEF d
<1>2. a * y = a * x + a + a * d
  BY <1>1
<1>3. a * d \in Nat /\ a * x \in Nat /\ a * y \in Nat
  BY <1>1
<1> QED
  BY <1>2, <1>3

(* Every set of natural numbers has a least one.                           *)
LEMMA LeastOf ==
    ASSUME NEW S, S \subseteq Nat, S # {}
    PROVE  \E m \in S : \A k \in S : m <= k
<1>1. PICK m \in S : \A k \in S : <<k, m>> \notin OpToRel(<, Nat)
  BY NatLessThanWellFounded, WFMin
<1>2. \A k \in S : ~(k < m)
  BY <1>1 DEF OpToRel
<1> QED
  BY <1>2

BucketAt(i) == (i \div PerBucket) + 1

SeedAt(i) == ((i + (i % PerBucket)) % Len(seeds)) + 1

(* Each prompt has the place and the seed of its number, and fits.         *)
PromptInv ==
    \A k \in 1..Len(prompts) :
        /\ prompts[k].bucket = BucketAt(k - 1)
        /\ prompts[k].seed = SeedAt(k - 1)
        /\ buckets[prompts[k].bucket].low <= prompts[k].tokens
        /\ prompts[k].tokens <= buckets[prompts[k].bucket].high

PromptTypes ==
    /\ Len(seeds) \in Nat \ {0}
    /\ \A i \in 1..Len(seeds) : seeds[i] \in Nat \ {0}
    /\ buckets \in Seq([low : Nat, high : Nat])
    /\ prompts \in Seq([seed : Nat, bucket : Nat, tokens : Nat])
    /\ Len(prompts) <= PerBucket * Len(buckets)

Unfit == Prompts!Fitting(Prompts!Seed, Prompts!Bucket) = {}

FitInv ==
    /\ PromptTypes /\ PromptInv
    /\ pc \in {"building", "failed", "built"}
    /\ pc = "built" => Len(prompts) = PerBucket * Len(buckets)
    /\ pc = "failed" => Len(prompts) < PerBucket * Len(buckets) /\ Unfit

LEMMA FitInit == Prompts!Init => FitInv
<1> SUFFICES ASSUME Prompts!Init
             PROVE  FitInv
  OBVIOUS
<1>1. PICK count \in SeedCounts : seeds \in [1..count -> Lengths]
  BY DEF Prompts!Init
<1>2. count \in Nat \ {0} /\ Lengths \subseteq Nat \ {0}
  BY PromptsAssumption
<1>3. Len(seeds) = count
  BY <1>1, <1>2
<1>4. \A i \in 1..Len(seeds) : seeds[i] \in Nat \ {0}
  BY <1>1, <1>2, <1>3
<1>5. prompts = <<>> /\ pc = "building"
      /\ buckets \in Seq([low : Nat, high : Nat])
  BY PromptsAssumption DEF Prompts!Init
<1>6. 0 <= PerBucket * Len(buckets)
  BY <1>5, PromptsAssumption
<1>7. PromptTypes
  BY <1>2, <1>3, <1>4, <1>5, <1>6 DEF PromptTypes
<1>8. PromptInv
  BY <1>5 DEF PromptInv
<1> QED
  BY <1>5, <1>7, <1>8 DEF FitInv

(* The loops stand within the lists.                                       *)
LEMMA Standing ==
    ASSUME PromptTypes, Len(prompts) < PerBucket * Len(buckets)
    PROVE  /\ Prompts!BucketIndex = BucketAt(Len(prompts))
           /\ Prompts!Seed = SeedAt(Len(prompts))
           /\ Prompts!BucketIndex \in 1..Len(buckets)
           /\ Prompts!Seed \in 1..Len(seeds)
           /\ Prompts!Bucket = buckets[Prompts!BucketIndex]
           /\ Prompts!Bucket.low \in Nat /\ Prompts!Bucket.high \in Nat
<1> DEFINE i == Len(prompts)
           P == PerBucket
<1>1. i \in Nat /\ P \in Nat \ {0} /\ Len(buckets) \in Nat
  BY PromptsAssumption DEF PromptTypes
<1>2. Prompts!BucketIndex = (i \div P) + 1
      /\ Prompts!Seed = ((i + (i % P)) % Len(seeds)) + 1
      /\ Prompts!Bucket = buckets[Prompts!BucketIndex]
  BY DEF Prompts!BucketIndex, Prompts!Seed, Prompts!PromptIndex,
         Prompts!Bucket
<1>3. i < P * Len(buckets)
  OBVIOUS
<1> DEFINE q == i \div P
           r == i % P
<1>4. q \in Nat /\ r \in 0..(P - 1) /\ i = P * q + r
  BY <1>1, Division
<1>5. (i + r) % Len(seeds) \in 0..(Len(seeds) - 1)
  <2> DEFINE x == i + r
  <2>1. x \in Nat
    BY <1>1, <1>4
  <2>2. Len(seeds) \in Nat \ {0}
    BY DEF PromptTypes
  <2> HIDE DEF x
  <2>3. x % Len(seeds) \in 0..(Len(seeds) - 1)
    BY <2>1, <2>2, Division
  <2> QED
    BY <2>3 DEF x
<1>6. q < Len(buckets)
  <2> SUFFICES ASSUME ~(q < Len(buckets))
               PROVE  FALSE
    OBVIOUS
  <2> HIDE DEF i, q, r, P
  <2>1. q = Len(buckets) \/ Len(buckets) < q
    BY <1>1, <1>4
  <2>2. P * Len(buckets) <= P * q
    BY <1>1, <1>4, <2>1, Products
  <2>3. P * q \in Nat /\ P * Len(buckets) \in Nat
    BY <1>1, <1>4
  <2> QED
    BY <1>1, <1>3, <1>4, <2>2, <2>3
<1>7. Prompts!BucketIndex \in 1..Len(buckets)
  BY <1>1, <1>2, <1>4, <1>6
<1>8. Prompts!Seed \in 1..Len(seeds)
  BY <1>2, <1>5, SMTT(30) DEF PromptTypes
<1>9. buckets[Prompts!BucketIndex] \in [low : Nat, high : Nat]
  <2> DEFINE R == [low : Nat, high : Nat]
  <2>1. buckets \in Seq(R)
    BY DEF PromptTypes
  <2> HIDE DEF R
  <2>2. buckets[Prompts!BucketIndex] \in R
    BY <1>7, <2>1, ElementOfSeq
  <2> QED
    BY <2>2 DEF R
<1>10. /\ Prompts!BucketIndex = BucketAt(Len(prompts))
       /\ Prompts!Seed = SeedAt(Len(prompts))
  BY <1>2 DEF BucketAt, SeedAt
<1> HIDE DEF i, P, q, r
<1> QED
  BY <1>2, <1>7, <1>8, <1>9, <1>10

LEMMA AddPromptStep ==
    ASSUME FitInv, Prompts!AddPrompt
    PROVE  FitInv'
<1> DEFINE s == Prompts!Seed
           b == Prompts!BucketIndex
<1>1. /\ pc = "building" /\ Len(prompts) < PerBucket * Len(buckets)
      /\ UNCHANGED <<seeds, buckets, pc>>
  BY DEF Prompts!AddPrompt
<1>2. PromptTypes /\ PromptInv
  BY DEF FitInv
<1>3. PICK c \in Prompts!Fitting(s, Prompts!Bucket) :
        prompts' = Append(prompts, [seed |-> s, bucket |-> b,
                                    tokens |-> Prompts!Tokens(s, c)])
  BY DEF Prompts!AddPrompt
<1>4. /\ s = SeedAt(Len(prompts)) /\ b = BucketAt(Len(prompts))
      /\ s \in 1..Len(seeds) /\ b \in 1..Len(buckets)
      /\ Prompts!Bucket = buckets[b]
      /\ Prompts!Bucket.low \in Nat /\ Prompts!Bucket.high \in Nat
  BY <1>1, <1>2, Standing
<1> DEFINE t == Prompts!Tokens(s, c)
<1>5. /\ c \in 1..Prompts!Bucket.high
      /\ buckets[b].low <= t /\ t <= buckets[b].high
  BY <1>3, <1>4 DEF Prompts!Fitting, Prompts!Tries, Prompts!Fits
<1>6. t \in Nat
  <2>1. t = Extra + c * seeds[s] /\ seeds[s] \in Nat /\ Extra \in Nat
    BY <1>2, <1>4, PromptsAssumption DEF Prompts!Tokens, PromptTypes
  <2>2. c \in Nat
    BY <1>4, <1>5
  <2> QED
    BY <2>1, <2>2
<1> DEFINE p == [seed |-> s, bucket |-> b, tokens |-> t]
           R == [seed : Nat, bucket : Nat, tokens : Nat]
<1>7. p \in R /\ prompts' = Append(prompts, p)
      /\ p.seed = s /\ p.bucket = b /\ p.tokens = t
  BY <1>2, <1>3, <1>4, <1>6, SMTT(30) DEF PromptTypes
<1> HIDE DEF s, b, t, p, R
<1>8. /\ prompts' \in Seq(R) /\ Len(prompts') = Len(prompts) + 1
      /\ prompts'[Len(prompts) + 1] = p /\ Len(prompts) \in Nat
      /\ \A k \in 1..Len(prompts) : prompts'[k] = prompts[k]
  <2>1. prompts \in Seq(R)
    BY <1>2 DEF PromptTypes, R
  <2> QED
    BY <1>7, <2>1, AppendProperties
<1>9. PerBucket * Len(buckets) \in Nat
  BY <1>2, PromptsAssumption DEF PromptTypes
<1>10. PromptTypes'
  BY <1>1, <1>2, <1>8, <1>9 DEF PromptTypes, R
<1>11. PromptInv'
  <2> SUFFICES ASSUME NEW k \in 1..Len(prompts')
               PROVE  /\ prompts'[k].bucket = BucketAt(k - 1)
                      /\ prompts'[k].seed = SeedAt(k - 1)
                      /\ buckets[prompts'[k].bucket].low <= prompts'[k].tokens
                      /\ prompts'[k].tokens
                            <= buckets[prompts'[k].bucket].high
    BY <1>1 DEF PromptInv, BucketAt, SeedAt
  <2>1. CASE k \in 1..Len(prompts)
    BY <1>2, <1>8, <2>1 DEF PromptInv
  <2>2. CASE k = Len(prompts) + 1
    <3>1. k - 1 = Len(prompts) /\ prompts'[k] = p
      BY <1>8, <2>2
    <3> QED
      BY <1>4, <1>5, <1>7, <3>1
  <2> QED
    BY <1>8, <2>1, <2>2
<1> QED
  BY <1>1, <1>10, <1>11 DEF FitInv

LEMMA FitInvariant == Prompts!Spec => []FitInv
<1>1. ASSUME FitInv, UNCHANGED <<seeds, buckets, prompts>>
      PROVE  PromptTypes' /\ PromptInv' /\ Unfit' = Unfit
  <2>1. PromptTypes'
    BY <1>1 DEF FitInv, PromptTypes
  <2>2. PromptInv'
    BY <1>1 DEF FitInv, PromptInv, BucketAt, SeedAt
  <2>3. Unfit' = Unfit
    BY <1>1 DEF Unfit, Prompts!Fitting, Prompts!Seed, Prompts!Bucket,
        Prompts!BucketIndex, Prompts!PromptIndex, Prompts!Fits,
        Prompts!Tokens, Prompts!Tries
  <2> QED
    BY <2>1, <2>2, <2>3
<1>2. FitInv /\ Prompts!CannotFit => FitInv'
  BY <1>1 DEF FitInv, Prompts!CannotFit, Unfit
<1>3. FitInv /\ Prompts!Return => FitInv'
  BY <1>1 DEF FitInv, Prompts!Return
<1>4. FitInv /\ UNCHANGED Prompts!vars => FitInv'
  BY <1>1 DEF FitInv, Prompts!vars
<1>5. FitInv /\ [Prompts!Next]_Prompts!vars => FitInv'
  BY <1>2, <1>3, <1>4, AddPromptStep DEF Prompts!Next
<1> QED
  BY FitInit, <1>5, PTL DEF Prompts!Spec

(* Where the first fit is not taken there is none.                         *)
LEMMA NothingFits ==
    ASSUME FitInv
    PROVE  Prompts!RefusedOnlyIfUnfit
<1> SUFFICES ASSUME pc = "failed",
                    NEW copies \in 1..(2 * Prompts!Bucket.high),
                    Prompts!Fits(Prompts!Seed, copies, Prompts!Bucket)
             PROVE  FALSE
  BY DEF Prompts!RefusedOnlyIfUnfit
<1> DEFINE s == Prompts!Seed
           W == Prompts!Bucket
           S == {c \in 1..W.high : Prompts!Fits(s, c, W)}
<1>1. PromptTypes /\ Unfit /\ Len(prompts) < PerBucket * Len(buckets)
  BY DEF FitInv
<1>2. s \in 1..Len(seeds) /\ W.high \in Nat /\ W.low \in Nat
  BY <1>1, Standing
<1>3. copies \in Nat /\ seeds[s] \in Nat \ {0} /\ Extra \in Nat
  BY <1>1, <1>2, PromptsAssumption DEF PromptTypes
<1>4. copies <= W.high
  <2>1. Extra + copies * seeds[s] <= W.high
    BY DEF Prompts!Fits, Prompts!Tokens
  <2> DEFINE m == seeds[s]
             h == W.high
  <2> HIDE DEF m, h
  <2>2. Extra + copies * m <= h /\ m \in Nat \ {0} /\ h \in Nat
    BY <1>2, <1>3, <2>1 DEF m, h
  <2>3. copies <= copies * m
    <3>1. m - 1 \in Nat /\ copies * m = copies + copies * (m - 1)
      BY <1>3, <2>2
    <3>2. copies * (m - 1) \in Nat
      BY <1>3, <3>1
    <3> QED
      BY <1>3, <3>1, <3>2
  <2>4. copies * m \in Nat
    BY <1>3, <2>2
  <2> QED
    BY <1>3, <2>2, <2>3, <2>4 DEF h
<1>5. copies \in S /\ S \subseteq Nat
  BY <1>2, <1>3, <1>4
<1>6. PICK c \in S : \A d \in S : c <= d
  <2> HIDE DEF S
  <2> QED
    BY <1>5, LeastOf
<1>7. \A d \in 1..(c - 1) : ~Prompts!Fits(s, d, W)
  <2> SUFFICES ASSUME NEW d \in 1..(c - 1), Prompts!Fits(s, d, W)
               PROVE  FALSE
    OBVIOUS
  <2>1. c \in 1..W.high
    OBVIOUS
  <2>2. d \in S /\ d < c
    BY <1>2, <2>1
  <2> HIDE DEF S
  <2> QED
    BY <1>2, <1>6, <2>1, <2>2
<1>8. c \in Prompts!Fitting(s, W)
  BY <1>7 DEF Prompts!Fitting, Prompts!Tries
<1> QED
  BY <1>1, <1>8 DEF Unfit

(* A bucket has the prompts of its range of numbers.                       *)
LEMMA RangeOfBucket ==
    ASSUME NEW i \in Nat, NEW b \in Nat \ {0}
    PROVE  BucketAt(i) = b <=> i + 1 \in (PerBucket * (b - 1) + 1)..(PerBucket * b)
<1> DEFINE P == PerBucket
           q == i \div P
           r == i % P
<1>1. P \in Nat \ {0} /\ b - 1 \in Nat
  BY PromptsAssumption
<1>2. q \in Nat /\ r \in 0..(P - 1) /\ i = P * q + r
  BY <1>1, Division
<1>3. P * q \in Nat /\ P * (b - 1) \in Nat /\ P * b = P * (b - 1) + P
  BY <1>1, <1>2
<1>4. BucketAt(i) = q + 1
  BY DEF BucketAt
<1> HIDE DEF P, q, r
<1>5. ASSUME q = b - 1
      PROVE  i + 1 \in (P * (b - 1) + 1)..(P * b)
  <2>1. i = P * (b - 1) + r
    BY <1>2, <1>5
  <2> QED
    BY <1>1, <1>2, <1>3, <2>1
<1>6. ASSUME q < b - 1
      PROVE  i + 1 < P * (b - 1) + 1
  <2>1. P * q + P <= P * (b - 1)
    BY <1>1, <1>2, <1>6, Products
  <2> QED
    BY <1>1, <1>2, <1>3, <2>1
<1>7. ASSUME b - 1 < q
      PROVE  P * b < i + 1
  <2>1. P * (b - 1) + P <= P * q
    BY <1>1, <1>2, <1>7, Products
  <2> QED
    BY <1>1, <1>2, <1>3, <2>1
<1>8. q = b - 1 \/ q < b - 1 \/ b - 1 < q
  BY <1>1, <1>2
<1>9. i + 1 \in (P * (b - 1) + 1)..(P * b) <=> q = b - 1
  BY <1>1, <1>2, <1>3, <1>5, <1>6, <1>7, <1>8
<1> QED
  BY <1>1, <1>2, <1>4, <1>9 DEF P

LEMMA AllWithin ==
    ASSUME FitInv
    PROVE  Prompts!WithinBuckets
<1>1. PromptTypes /\ PromptInv
  BY DEF FitInv
<1>2. ASSUME NEW p \in Prompts!ToSet(prompts)
      PROVE  /\ buckets[p.bucket].low <= p.tokens
             /\ p.tokens <= buckets[p.bucket].high
  <2>1. PICK k \in 1..Len(prompts) : p = prompts[k]
    BY <1>1, <1>2 DEF Prompts!ToSet, PromptTypes
  <2> QED
    BY <1>1, <2>1 DEF PromptInv
<1>3. ASSUME pc = "built", NEW b \in 1..Len(buckets)
      PROVE  Cardinality({k \in 1..Len(prompts) : prompts[k].bucket = b})
                = PerBucket
  <2> DEFINE P == PerBucket
             N == Len(buckets)
             low == P * (b - 1) + 1
             high == P * b
             S == {k \in 1..Len(prompts) : prompts[k].bucket = b}
  <2>1. Len(prompts) = P * N /\ Len(prompts) \in Nat
    BY <1>1, <1>3 DEF FitInv, PromptTypes
  <2>2. P \in Nat \ {0} /\ N \in Nat /\ b \in Nat \ {0} /\ b <= N
        /\ b - 1 \in Nat
    BY <1>1, PromptsAssumption DEF PromptTypes
  <2>3. \A k \in 1..Len(prompts) : prompts[k].bucket = b <=> k \in low..high
    <3> SUFFICES ASSUME NEW k \in 1..Len(prompts)
                 PROVE  prompts[k].bucket = b <=> k \in low..high
      OBVIOUS
    <3>1. prompts[k].bucket = BucketAt(k - 1)
      BY <1>1 DEF PromptInv
    <3>2. k - 1 \in Nat /\ (k - 1) + 1 = k
      OBVIOUS
    <3> QED
      BY <2>2, <3>1, <3>2, RangeOfBucket
  <2>4. /\ P * (b - 1) \in Nat /\ high = P * (b - 1) + P
        /\ P * b <= P * N /\ P * N \in Nat
    <3>1. P * (b - 1) \in Nat /\ P * b = P * (b - 1) + P /\ P * N \in Nat
      BY <2>2
    <3>2. P * b <= P * N
      <4>1. b = N \/ b < N
        BY <2>2
      <4>2. b < N => P * b + P <= P * N
        <5> HIDE DEF P, N
        <5> QED
          BY <2>2, Products
      <4> HIDE DEF P, N
      <4> QED
        BY <2>2, <4>1, <4>2
    <3> QED
      BY <3>1, <3>2
  <2> HIDE DEF P, N
  <2>5. low..high \subseteq 1..Len(prompts)
    BY <2>1, <2>2, <2>4
  <2>6. S = low..high
    <3> HIDE DEF low, high
    <3> QED
      BY <2>3, <2>5
  <2>7. low \in Int /\ high \in Int /\ high - low + 1 = P /\ low <= high
    BY <2>2, <2>4
  <2>8. Cardinality(low..high) = high - low + 1
    <3> HIDE DEF low, high
    <3> QED
      BY <2>7, FS_Interval
  <2> QED
    BY <2>6, <2>7, <2>8 DEF P
<1> QED
  BY <1>2, <1>3, SameCount DEF Prompts!WithinBuckets

(* Numbers twice as far apart as this differ by no multiple of n.          *)
LEMMA TwiceApart ==
    ASSUME NEW n0 \in Nat \ {0}, NEW a \in Nat, NEW d \in Nat \ {0},
           IF n0 % 2 = 1 THEN d < n0 ELSE 2 * d < n0
    PROVE  (a % n0) # ((a + 2 * d) % n0)
<1> SUFFICES ASSUME (a % n0) = ((a + 2 * d) % n0)
             PROVE  FALSE
  OBVIOUS
<1> DEFINE e == a + 2 * d
           r == a % n0
           u == a \div n0
           v == e \div n0
           U == n0 * u
           V == n0 * v
<1>1. e \in Nat /\ e = a + 2 * d
  OBVIOUS
<1>2. u \in Nat /\ a = U + r /\ r \in 0..(n0 - 1)
  BY Division
<1>3. v \in Nat /\ e = V + r
  <2> HIDE DEF e
  <2>1. (e % n0) = r
    BY DEF e
  <2> QED
    BY <1>1, <2>1, Division
<1>4. \A x, y \in Nat : x < y => n0 * x + n0 <= n0 * y
  BY Products
<1>5. U \in Nat /\ V \in Nat
  BY <1>2, <1>3
<1>6. ~(v < u)
  <2>1. v < u => V + n0 <= U
    BY <1>2, <1>3, <1>4
  <2> HIDE DEF e, r, u, v, U, V
  <2> QED
    BY <1>1, <1>2, <1>3, <1>5, <2>1
<1>7. v # u
  <2>1. v = u => V = U
    OBVIOUS
  <2> HIDE DEF e, r, u, v, U, V
  <2> QED
    BY <1>1, <1>2, <1>3, <1>5, <2>1
<1>8. U + n0 <= V
  <2>1. u < v
    <3> HIDE DEF e, r, u, v, U, V
    <3> QED
      BY <1>2, <1>3, <1>6, <1>7
  <2> QED
    BY <1>2, <1>3, <1>4, <2>1
<1>9. n0 <= 2 * d
  <2> HIDE DEF e, r, u, v, U, V
  <2> QED
    BY <1>1, <1>2, <1>3, <1>5, <1>8
<1>10. n0 % 2 = 1 /\ d < n0
  <2> HIDE DEF e, r, u, v, U, V
  <2> QED
    BY <1>9
<1>11. ~(u + 1 < v)
  <2>1. u + 1 < v => n0 * (u + 1) + n0 <= V
    BY <1>2, <1>3, <1>4
  <2>2. n0 * (u + 1) = U + n0
    BY <1>2
  <2> HIDE DEF e, r, u, v, U, V
  <2> QED
    BY <1>1, <1>2, <1>3, <1>5, <1>10, <2>1, <2>2
<1>12. v = u + 1
  <2> HIDE DEF e, r, u, v, U, V
  <2> QED
    BY <1>2, <1>3, <1>6, <1>7, <1>11
<1>13. V = U + n0
  BY <1>2, <1>12
<1>14. n0 = 2 * d
  <2> HIDE DEF e, r, u, v, U, V
  <2> QED
    BY <1>1, <1>2, <1>3, <1>5, <1>13
<1> QED
  BY <1>10, <1>14

(* Prompts of one bucket, the one earlier than the other.                  *)
LEMMA LaterDiffers ==
    ASSUME Len(seeds) \in Nat \ {0},
           Len(seeds) >= (IF Len(seeds) % 2 = 1 THEN 1 ELSE 2) * PerBucket,
           NEW i \in Nat, NEW k \in Nat, i < k, BucketAt(i) = BucketAt(k)
    PROVE  SeedAt(i) # SeedAt(k)
<1> DEFINE P == PerBucket
           S == Len(seeds)
           q == i \div P
           x == i % P
           y == k % P
<1>1. P \in Nat \ {0} /\ S \in Nat \ {0}
  BY PromptsAssumption
<1>2. q \in Nat /\ x \in 0..(P - 1) /\ i = P * q + x
  BY <1>1, Division
<1>3. y \in 0..(P - 1) /\ k = P * q + y
  <2>1. k \div P = q
    <3>1. k \div P \in Nat
      BY <1>1, Division
    <3>2. k \div P + 1 = q + 1
      BY DEF BucketAt
    <3> HIDE DEF q
    <3> QED
      BY <1>2, <3>1, <3>2
  <2>2. y \in 0..(P - 1) /\ k = P * (k \div P) + y
    BY <1>1, Division
  <2> QED
    BY <2>1, <2>2
<1> DEFINE d == y - x
<1>4. d \in Nat \ {0} /\ d < P /\ k + y = (i + x) + 2 * d
  <2> DEFINE M == P * q
  <2>1. M \in Nat
    BY <1>1, <1>2
  <2> HIDE DEF P, q, x, y, M
  <2>2. i = M + x /\ k = M + y
    BY <1>2, <1>3 DEF M
  <2> QED
    BY <1>1, <1>2, <1>3, <2>1, <2>2
<1>5. IF S % 2 = 1 THEN d < S ELSE 2 * d < S
  <2>1. CASE S % 2 = 1
    <3>1. S >= P
      BY <1>1, <2>1
    <3> HIDE DEF P, d, S
    <3> QED
      BY <1>1, <1>4, <2>1, <3>1
  <2>2. CASE S % 2 # 1
    <3>1. S >= 2 * P
      BY <2>2
    <3> HIDE DEF P, d, S
    <3> QED
      BY <1>1, <1>4, <2>2, <3>1
  <2> QED
    BY <2>1, <2>2
<1> DEFINE a == i + x
           b == k + y
<1>6. a \in Nat /\ b = a + 2 * d
  BY <1>2, <1>4
<1>7. (a % S) # (b % S)
  <2> HIDE DEF S, P, d, a, b
  <2> QED
    BY <1>1, <1>4, <1>5, <1>6, TwiceApart
<1>8. SeedAt(i) = (a % S) + 1 /\ SeedAt(k) = (b % S) + 1
  BY DEF SeedAt
<1>9. (a % S) \in Nat /\ (b % S) \in Nat
  <2>1. b \in Nat
    BY <1>4, <1>6
  <2> HIDE DEF a, b, S
  <2>2. (a % S) \in 0..(S - 1) /\ (b % S) \in 0..(S - 1)
    BY <1>1, <1>6, <2>1, Division
  <2> QED
    BY <2>2
<1> HIDE DEF a, b, S
<1> QED
  BY <1>7, <1>8, <1>9

LEMMA SeedsDiffer ==
    ASSUME FitInv
    PROVE  Prompts!SeedsVary
<1> SUFFICES ASSUME Len(seeds) >=
                      (IF Len(seeds) % 2 = 1 THEN 1 ELSE 2) * PerBucket,
                    NEW j \in 1..Len(prompts), NEW k \in 1..Len(prompts),
                    j # k, prompts[j].bucket = prompts[k].bucket
             PROVE  prompts[j].seed # prompts[k].seed
  BY DEF Prompts!SeedsVary
<1>1. /\ prompts[j].bucket = BucketAt(j - 1) /\ prompts[j].seed = SeedAt(j - 1)
      /\ prompts[k].bucket = BucketAt(k - 1) /\ prompts[k].seed = SeedAt(k - 1)
  BY DEF FitInv, PromptInv
<1>2. /\ j - 1 \in Nat /\ k - 1 \in Nat /\ Len(seeds) \in Nat \ {0}
      /\ j - 1 < k - 1 \/ k - 1 < j - 1
  BY DEF FitInv, PromptTypes
<1> QED
  BY <1>1, <1>2, LaterDiffers

(* Every prompt is in the token range of its bucket and each bucket has    *)
(* its number of them; an experiment is refused only for a seed that fits  *)
(* with no number of copies; the prompts of a bucket differ where there    *)
(* are seeds enough.  For all seeds, buckets and numbers of prompts.       *)
THEOREM PromptsAreFit == Prompts!Spec => []PromptsFit
<1>1. FitInv => PromptsFit
  BY AllWithin, NothingFits, SeedsDiffer DEF PromptsFit, Prompts!PromptsFit
<1> QED
  BY FitInvariant, <1>1, PTL

-----------------------------------------------------------------------------
(* The schedules                                                           *)

ScheduleTypes ==
    /\ kind \in {"constant", "poisson", "bursty"}
    /\ duration \in Nat \ {0} /\ num \in Nat \ {0} /\ den \in Nat \ {0}
    /\ index \in Nat /\ start \in Nat /\ local \in Nat
    /\ gaps \subseteq Nat /\ offsets \in Seq(Nat)

(* The constant schedule has the indices tried so far that are in time.    *)
TickInv ==
    kind = "constant" =>
        /\ index <= Schedule!Count
        /\ \A i \in Nat :
              (\E k \in 1..Len(offsets) : offsets[k] = i)
                  <=> (i < index /\ Schedule!Before(i))

(* The last arrival of an interval is where its clock stands, and none is  *)
(* later.                                                                  *)
DrawInv ==
    kind # "constant" =>
        /\ start < duration => start + local < Schedule!End
        /\ local > 0 => \E k \in 1..Len(offsets) : offsets[k] = start + local
        /\ \A k \in 1..Len(offsets) :
              offsets[k] < duration /\ offsets[k] <= start + local
        /\ \A k \in 1..(Len(offsets) - 1) : offsets[k] <= offsets[k + 1]

ScheduleInv == ScheduleTypes /\ TickInv /\ DrawInv

(* The end of an interval.                                                 *)
LEMMA EndBounds ==
    ASSUME ScheduleTypes
    PROVE  /\ Schedule!End \in Nat /\ Schedule!End <= duration
           /\ start < duration => start < Schedule!End
           /\ kind # "poisson" => Schedule!End <= start + Interval
<1>1. Interval \in Nat \ {0} /\ duration \in Nat /\ start \in Nat
  BY ScheduleAssumption DEF ScheduleTypes
<1> QED
  BY <1>1 DEF Schedule!End, Schedule!Least

(* How many indices are tried: at least those in time.                     *)
LEMMA CountBounds ==
    ASSUME ScheduleTypes
    PROVE  /\ Schedule!Count \in Nat
           /\ \A i \in Nat : Schedule!Before(i) =>
                  i < Schedule!Count /\ i <= duration * num
<1> DEFINE top == num * duration
           c == (top + den - 1) \div den
           r == (top + den - 1) % den
<1>1. top \in Nat \ {0} /\ den \in Nat \ {0} /\ duration * num = top
  BY DEF ScheduleTypes
<1>2. c \in Nat /\ r \in 0..(den - 1) /\ top + den - 1 = den * c + r
  <2> DEFINE a == top + den - 1
  <2>1. a \in Nat
    BY <1>1
  <2> HIDE DEF a
  <2>2. /\ a \div den \in Nat /\ a % den \in 0..(den - 1)
        /\ a = den * (a \div den) + (a % den)
    BY <1>1, <2>1, Division
  <2> QED
    BY <2>2 DEF a
<1>3. Schedule!Count \in Nat /\ c <= Schedule!Count
  <2> DEFINE S == {1, c}
             m == IF c <= 1 THEN 1 ELSE c
  <2>1. Schedule!Count = CHOOSE x \in S : \A y \in S : x >= y
    BY DEF Schedule!Count, Schedule!Max
  <2>2. m \in S /\ \A y \in S : m >= y
    BY <1>2
  <2> HIDE DEF S, m
  <2>3. Schedule!Count \in S /\ \A y \in S : Schedule!Count >= y
    BY <2>1, <2>2
  <2> HIDE DEF c
  <2> QED
    BY <1>2, <2>3 DEF S
<1>4. ASSUME NEW i \in Nat, Schedule!Before(i)
      PROVE  i < c /\ i <= top
  <2>1. i * den < top /\ i * den = den * i
    BY <1>1, <1>4 DEF Schedule!Before
  <2>2. i <= i * den
    <3>1. i * den = i + i * (den - 1) /\ den - 1 \in Nat
      BY <1>1
    <3>2. i * (den - 1) \in Nat
      BY <3>1
    <3> QED
      BY <3>1, <3>2
  <2> DEFINE x == den * i
             y == den * c
  <2>3. x \in Nat /\ y \in Nat
    BY <1>1, <1>2
  <2>4. x < y
    <3> HIDE DEF top, c, r, x, y
    <3>1. top <= y
      BY <1>1, <1>2, <2>3 DEF y
    <3> QED
      BY <1>1, <2>1, <2>3, <3>1 DEF x
  <2>5. ~(c <= i)
    <3> SUFFICES ASSUME c <= i
                 PROVE  FALSE
      OBVIOUS
    <3>1. c = i \/ c < i
      <4> HIDE DEF c
      <4> QED
        BY <1>2
    <3>2. c < i => y + den <= x
      <4> HIDE DEF c
      <4> QED
        BY <1>1, <1>2, Products
    <3>3. c = i => y = x
      OBVIOUS
    <3> HIDE DEF top, c, r, x, y
    <3> QED
      BY <1>1, <2>3, <2>4, <3>1, <3>2, <3>3
  <2> HIDE DEF top, c, r
  <2> QED
    BY <1>1, <1>2, <2>1, <2>2, <2>5
<1> HIDE DEF top, c, r
<1> QED
  BY <1>1, <1>2, <1>3, <1>4

LEMMA ScheduleInit == Schedule!Init => ScheduleInv
<1> SUFFICES ASSUME Schedule!Init
             PROVE  ScheduleInv
  OBVIOUS
<1>1. ScheduleTypes
  BY ScheduleAssumption DEF Schedule!Init, ScheduleTypes
<1>2. index = 0 /\ start = 0 /\ local = 0 /\ offsets = <<>> /\ Len(offsets) = 0
  BY DEF Schedule!Init
<1>3. TickInv
  BY <1>1, <1>2, CountBounds DEF TickInv, ScheduleTypes
<1>4. DrawInv
  BY <1>1, <1>2, EndBounds DEF DrawInv, ScheduleTypes
<1> QED
  BY <1>1, <1>3, <1>4 DEF ScheduleInv

LEMMA TickStep ==
    ASSUME ScheduleInv, Schedule!Tick
    PROVE  ScheduleInv'
<1>1. /\ kind = "constant" /\ index < Schedule!Count /\ index' = index + 1
      /\ offsets' = IF Schedule!Before(index) THEN Append(offsets, index)
                    ELSE offsets
      /\ UNCHANGED <<kind, duration, num, den, start, local, gaps>>
  BY DEF Schedule!Tick
<1>2. ScheduleTypes /\ TickInv
  BY DEF ScheduleInv
<1>3. index \in Nat /\ offsets \in Seq(Nat)
  BY <1>2 DEF ScheduleTypes
<1>4. ScheduleTypes'
  BY <1>1, <1>2, <1>3 DEF ScheduleTypes
<1>5. Schedule!Count' = Schedule!Count /\ Schedule!Count \in Nat
      /\ \A i : Schedule!Before(i)' = Schedule!Before(i)
  BY <1>1, <1>2, CountBounds DEF Schedule!Count, Schedule!Before
<1>6. ASSUME NEW i \in Nat
      PROVE  (\E k \in 1..Len(offsets') : offsets'[k] = i)
                <=> (i < index + 1 /\ Schedule!Before(i))
  <2>1. (\E k \in 1..Len(offsets) : offsets[k] = i)
            <=> (i < index /\ Schedule!Before(i))
    BY <1>1, <1>2 DEF TickInv
  <2>2. i < index + 1 <=> i < index \/ i = index
    BY <1>3
  <2>3. CASE Schedule!Before(index)
    <3>1. /\ offsets' = Append(offsets, index)
          /\ Len(offsets') = Len(offsets) + 1 /\ Len(offsets) \in Nat
          /\ offsets'[Len(offsets) + 1] = index
          /\ \A k \in 1..Len(offsets) : offsets'[k] = offsets[k]
      BY <1>1, <1>3, <2>3, AppendProperties
    <3>2. (\E k \in 1..Len(offsets') : offsets'[k] = i)
            <=> (\E k \in 1..Len(offsets) : offsets[k] = i) \/ i = index
      <4>1. \A k : k \in 1..Len(offsets') <=>
                k \in 1..Len(offsets) \/ k = Len(offsets) + 1
        BY <3>1
      <4> QED
        BY <3>1, <4>1
    <3> QED
      BY <2>1, <2>2, <2>3, <3>2
  <2>4. CASE ~Schedule!Before(index)
    BY <1>1, <2>1, <2>2, <2>4
  <2> QED
    BY <2>3, <2>4
<1>7. TickInv'
  <2>1. index' <= Schedule!Count'
    BY <1>1, <1>3, <1>5
  <2> QED
    BY <1>1, <1>5, <1>6, <2>1 DEF TickInv
<1>8. DrawInv'
  BY <1>1 DEF DrawInv
<1> QED
  BY <1>4, <1>7, <1>8 DEF ScheduleInv

LEMMA DrawStep ==
    ASSUME ScheduleInv, Schedule!Draw
    PROVE  ScheduleInv'
<1>1. /\ kind # "constant" /\ start < duration
      /\ UNCHANGED <<kind, duration, num, den, index>>
  BY DEF Schedule!Draw, Schedule!Running
<1>2. ScheduleTypes /\ DrawInv
  BY DEF ScheduleInv
<1>3. PICK gap \in gaps :
        IF start + local + gap < Schedule!End
        THEN /\ local' = local + gap
             /\ offsets' = Append(offsets, start + local + gap)
             /\ UNCHANGED <<start, gaps>>
        ELSE /\ start' = Schedule!End /\ local' = Schedule!Carry(gap)
             /\ gaps' \in IF kind = "bursty" THEN {LowGaps, HighGaps}
                          ELSE {gaps}
             /\ UNCHANGED offsets
  BY DEF Schedule!Draw
<1>4. /\ gap \in Nat /\ start \in Nat /\ local \in Nat /\ duration \in Nat
      /\ offsets \in Seq(Nat) /\ Schedule!End \in Nat
      /\ Schedule!End <= duration /\ Len(offsets) \in Nat
      /\ \A k \in 1..Len(offsets) : offsets[k] \in Nat
  BY <1>2, EndBounds, ElementOfSeq, LenProperties DEF ScheduleTypes
<1>5. /\ start + local < Schedule!End
      /\ local > 0 => \E k \in 1..Len(offsets) : offsets[k] = start + local
  BY <1>1, <1>2 DEF DrawInv
<1>6. /\ \A k \in 1..Len(offsets) :
            offsets[k] < duration /\ offsets[k] <= start + local
      /\ \A k \in 1..(Len(offsets) - 1) : offsets[k] <= offsets[k + 1]
  BY <1>1, <1>2 DEF DrawInv
<1>7. TickInv'
  BY <1>1 DEF TickInv
<1>8. CASE start + local + gap < Schedule!End
  <2> DEFINE new == start + local + gap
  <2>1. /\ local' = local + gap /\ start' = start /\ gaps' = gaps
        /\ offsets' = Append(offsets, new)
    BY <1>3, <1>8
  <2>2. new \in Nat /\ new = start' + local' /\ start + local <= new
        /\ new < Schedule!End
    BY <1>4, <1>8, <2>1
  <2> HIDE DEF new
  <2>3. /\ offsets' \in Seq(Nat) /\ Len(offsets') = Len(offsets) + 1
        /\ offsets'[Len(offsets) + 1] = new
        /\ \A k \in 1..Len(offsets) : offsets'[k] = offsets[k]
    BY <1>4, <2>1, <2>2, AppendProperties
  <2>4. ScheduleTypes'
    BY <1>1, <1>2, <1>4, <2>1, <2>3 DEF ScheduleTypes
  <2>5. Schedule!End' = Schedule!End
    BY <1>1, <2>1 DEF Schedule!End, Schedule!Least
  <2>6. \A k \in 1..Len(offsets') :
            offsets'[k] < duration /\ offsets'[k] <= new
    <3> TAKE k \in 1..Len(offsets')
    <3>1. CASE k \in 1..Len(offsets)
      <4>1. /\ offsets'[k] = offsets[k] /\ offsets[k] \in Nat
            /\ offsets[k] < duration /\ offsets[k] <= start + local
        BY <1>4, <1>6, <2>3, <3>1
      <4> QED
        BY <1>4, <2>2, <4>1
    <3>2. CASE k = Len(offsets) + 1
      BY <1>4, <2>2, <2>3, <3>2
    <3> QED
      BY <1>4, <2>3, <3>1, <3>2
  <2>7. \A k \in 1..(Len(offsets') - 1) : offsets'[k] <= offsets'[k + 1]
    <3> TAKE k \in 1..(Len(offsets') - 1)
    <3>1. k \in 1..Len(offsets) /\ offsets'[k] = offsets[k]
      BY <1>4, <2>3
    <3>2. CASE k = Len(offsets)
      BY <2>3, <2>6, <3>1, <3>2
    <3>3. CASE k # Len(offsets)
      <4>1. k \in 1..(Len(offsets) - 1) /\ k + 1 \in 1..Len(offsets)
        BY <1>4, <3>1, <3>3
      <4> QED
        BY <1>6, <2>3, <3>1, <4>1
    <3> QED
      BY <3>2, <3>3
  <2>8. start' + local' < Schedule!End'
        /\ \E k \in 1..Len(offsets') : offsets'[k] = start' + local'
    <3>1. Len(offsets) + 1 \in 1..Len(offsets')
      BY <1>4, <2>3
    <3> QED
      BY <2>2, <2>3, <2>5, <3>1
  <2>9. DrawInv'
    BY <1>1, <2>2, <2>6, <2>7, <2>8 DEF DrawInv
  <2> QED
    BY <1>7, <2>4, <2>9 DEF ScheduleInv
<1>9. CASE ~(start + local + gap < Schedule!End)
  <2>1. /\ start' = Schedule!End /\ local' = 0 /\ offsets' = offsets
        /\ gaps' \in {LowGaps, HighGaps, gaps}
    BY <1>3, <1>9 DEF Schedule!Carry
  <2>2. ScheduleTypes'
    BY <1>1, <1>2, <1>4, <2>1, ScheduleAssumption DEF ScheduleTypes
  <2>3. start' < duration' => start' + local' < Schedule!End'
    <3>1. /\ Schedule!End' \in Nat
          /\ start' < duration' => start' < Schedule!End'
      <4>1. Interval \in Nat \ {0} /\ duration' \in Nat /\ start' \in Nat
        BY <2>2, ScheduleAssumption DEF ScheduleTypes
      <4>2. Schedule!End' = IF kind' = "poisson" THEN duration'
                            ELSE IF duration' <= start' + Interval
                            THEN duration' ELSE start' + Interval
        BY DEF Schedule!End, Schedule!Least
      <4> DEFINE s == start'
                 d == duration'
                 e == Schedule!End'
      <4> HIDE DEF s, d, e
      <4>3. /\ Interval \in Nat \ {0} /\ d \in Nat /\ s \in Nat
            /\ e = d \/ e = IF d <= s + Interval THEN d ELSE s + Interval
        BY <4>1, <4>2 DEF s, d, e
      <4>4. e \in Nat /\ (s < d => s < e)
        BY <4>3
      <4> QED
        BY <4>4 DEF s, d, e
    <3>2. start' \in Nat /\ start' + local' = start'
      BY <1>4, <2>1
    <3> QED
      BY <3>1, <3>2
  <2>4. \A k \in 1..Len(offsets) :
            offsets[k] < duration /\ offsets[k] <= start' + local'
    <3> TAKE k \in 1..Len(offsets)
    <3>1. /\ offsets[k] \in Nat /\ offsets[k] < duration
          /\ offsets[k] <= start + local
      BY <1>4, <1>6
    <3> QED
      BY <1>4, <1>5, <2>1, <3>1
  <2>5. ~(local' > 0)
    BY <2>1
  <2>6. DrawInv'
    BY <1>1, <1>6, <2>1, <2>3, <2>4, <2>5 DEF DrawInv
  <2> QED
    BY <1>7, <2>2, <2>6 DEF ScheduleInv
<1> QED
  BY <1>8, <1>9

LEMMA ScheduleInvariant == Schedule!Spec => []ScheduleInv
<1>1. ScheduleInv /\ UNCHANGED Schedule!vars => ScheduleInv'
  BY DEF ScheduleInv, ScheduleTypes, TickInv, DrawInv, Schedule!vars,
      Schedule!Count, Schedule!Before, Schedule!End, Schedule!Least
<1>2. ScheduleInv /\ [Schedule!Next]_Schedule!vars => ScheduleInv'
  BY <1>1, TickStep, DrawStep DEF Schedule!Next
<1> QED
  BY ScheduleInit, <1>2, PTL DEF Schedule!Spec

LEMMA ExactAndOrdered ==
    ASSUME ScheduleInv
    PROVE  Schedule!ConstantIsExact /\ Schedule!InOrder
<1>1. ScheduleTypes /\ TickInv /\ DrawInv
  BY DEF ScheduleInv
<1>2. ASSUME kind = "constant", index = Schedule!Count
      PROVE  Schedule!ToSet(offsets) =
                {i \in 0..(duration * num) : Schedule!Before(i)}
  <2>1. Schedule!ToSet(offsets) = {offsets[k] : k \in 1..Len(offsets)}
    BY <1>1 DEF Schedule!ToSet, ScheduleTypes
  <2>2. \A i \in Nat :
            i \in Schedule!ToSet(offsets) <=> Schedule!Before(i)
    <3> TAKE i \in Nat
    <3>1. i \in Schedule!ToSet(offsets)
            <=> \E k \in 1..Len(offsets) : offsets[k] = i
      BY <2>1
    <3>2. (\E k \in 1..Len(offsets) : offsets[k] = i)
            <=> (i < index /\ Schedule!Before(i))
      BY <1>1, <1>2 DEF TickInv
    <3> QED
      BY <1>1, <1>2, <3>1, <3>2, CountBounds
  <2>3. Schedule!ToSet(offsets) \subseteq Nat
    BY <1>1, <2>1, ElementOfSeq DEF ScheduleTypes
  <2>4. duration * num \in Nat
    BY <1>1 DEF ScheduleTypes
  <2>5. \A i \in Nat : Schedule!Before(i) => i \in 0..(duration * num)
    <3> DEFINE top == duration * num
    <3>1. \A i \in Nat : Schedule!Before(i) => i <= top
      BY <1>1, CountBounds
    <3> HIDE DEF top
    <3> QED
      BY <2>4, <3>1 DEF top
  <2> QED
    BY <2>2, <2>3, <2>5
<1>3. Schedule!InOrder
  BY <1>1 DEF Schedule!InOrder, DrawInv
<1> QED
  BY <1>2, <1>3 DEF Schedule!ConstantIsExact

(* What OwnRate says of a step.                                            *)
OwnStep ==
    kind = "bursty" /\ offsets' # offsets =>
        LET new == offsets'[Len(offsets')]
            earlier == {offsets[k] : k \in 1..Len(offsets)}
            from == Schedule!Max({start} \union {o \in earlier : o >= start})
        IN new - from \in gaps /\ new < start + Interval

LEMMA OwnDraws ==
    ASSUME ScheduleInv, [Schedule!Next]_Schedule!vars
    PROVE  OwnStep
<1> SUFFICES ASSUME kind = "bursty", offsets' # offsets
             PROVE  OwnStep
  BY DEF OwnStep
<1>1. ScheduleTypes /\ DrawInv
  BY DEF ScheduleInv
<1>2. Schedule!Draw
  BY DEF Schedule!Next, Schedule!Tick, Schedule!vars
<1>3. PICK gap \in gaps :
        /\ start + local + gap < Schedule!End
        /\ offsets' = Append(offsets, start + local + gap)
  BY <1>2 DEF Schedule!Draw
<1>4. /\ gap \in Nat /\ start \in Nat /\ local \in Nat /\ Interval \in Nat
      /\ offsets \in Seq(Nat) /\ Schedule!End \in Nat
      /\ Schedule!End <= start + Interval /\ Len(offsets) \in Nat
  BY <1>1, EndBounds, ScheduleAssumption, LenProperties DEF ScheduleTypes
<1> DEFINE new == start + local + gap
           E == {offsets[k] : k \in 1..Len(offsets)}
           S == {start} \union {o \in E : o >= start}
           from == Schedule!Max(S)
<1>5. offsets'[Len(offsets')] = new
  <2>1. new \in Nat
    BY <1>4
  <2> HIDE DEF new
  <2>2. offsets' = Append(offsets, new)
    BY <1>3 DEF new
  <2> QED
    BY <1>4, <2>1, <2>2, AppendProperties
<1>6. start + local \in S /\ \A y \in S : start + local >= y
  <2>1. \A k \in 1..Len(offsets) : offsets[k] <= start + local
    BY <1>1 DEF DrawInv
  <2>2. local > 0 => start + local \in E
    BY <1>1 DEF DrawInv
  <2>3. \A y \in E : y <= start + local
    BY <2>1
  <2> HIDE DEF E
  <2>4. start + local \in S
    BY <1>4, <2>2
  <2> QED
    BY <1>4, <2>3, <2>4
<1>7. S \subseteq Nat
  BY <1>4, ElementOfSeq
<1>8. from = start + local
  <2> HIDE DEF S
  <2>1. from \in S /\ \A y \in S : from >= y
    BY <1>6 DEF Schedule!Max
  <2> HIDE DEF from
  <2>2. from \in Nat /\ from >= start + local /\ start + local >= from
    BY <1>6, <1>7, <2>1
  <2> QED
    BY <1>4, <2>2
<1>9. new - (start + local) = gap /\ new < start + Interval
  BY <1>3, <1>4
<1> HIDE DEF new, from
<1> QED
  BY <1>3, <1>5, <1>8, <1>9 DEF OwnStep, from

(* The constant schedule is exactly the indices whose time is within the   *)
(* duration; a random one is in the order of time and ends before the      *)
(* duration does; and an arrival belongs to the rate of its own interval.  *)
(* For all rates, durations, intervals and gaps.                           *)
THEOREM SchedulesAreExact == Schedule!Spec => ArrivalsExact
<1>1. ScheduleInv => Schedule!ConstantIsExact /\ Schedule!InOrder
  BY ExactAndOrdered
<1>2. ScheduleInv /\ [Schedule!Next]_Schedule!vars => [OwnStep]_Schedule!vars
  BY OwnDraws
<1>3. Schedule!Spec => [][OwnStep]_Schedule!vars
  BY ScheduleInvariant, <1>2, PTL DEF Schedule!Spec
<1>4. Schedule!Spec => Schedule!OwnRate
  BY <1>3, PTL DEF OwnStep, Schedule!OwnRate
<1> QED
  BY ScheduleInvariant, <1>1, <1>4, PTL DEF ArrivalsExact,
      Schedule!ArrivalsExact

-----------------------------------------------------------------------------
(* The configurations                                                      *)

(* Each field has a value that it may be given.                            *)
ConfigTypes ==
    /\ DOMAIN config = DOMAIN Settings!Domain
    /\ \A field \in DOMAIN Settings!Domain :
          config[field] \in Settings!Domain[field]

LEMMA ConfigInvariant == Settings!Spec => []ConfigTypes
<1>1. Settings!Init => ConfigTypes
  BY SettingsAssumption DEF Settings!Init, ConfigTypes
<1>2. ConfigTypes /\ Settings!Next => ConfigTypes'
  <2> SUFFICES ASSUME ConfigTypes, Settings!Next
               PROVE  ConfigTypes'
    OBVIOUS
  <2> DEFINE D == Settings!Domain
  <2>1. PICK f \in DOMAIN D : \E value \in D[f] :
          config' = [config EXCEPT ![f] = value]
    BY DEF Settings!Next, Settings!Edit
  <2>2. PICK value \in D[f] : config' = [config EXCEPT ![f] = value]
    BY <2>1
  <2>3. DOMAIN config = DOMAIN D /\ \A g \in DOMAIN D : config[g] \in D[g]
    BY DEF ConfigTypes
  <2>4. D' = D
    BY DEF Settings!Domain, Settings!Numbers, Settings!Lists,
        Settings!BoundedSeq, Settings!SeqOf
  <2> HIDE DEF D
  <2>5. DOMAIN config' = DOMAIN D
    BY <2>2, <2>3
  <2>6. \A g \in DOMAIN D : config'[g] \in D[g]
    <3> TAKE g \in DOMAIN D
    <3>1. config'[g] = IF g = f THEN value ELSE config[g]
      BY <2>2, <2>3
    <3> QED
      BY <2>2, <2>3, <3>1
  <2> QED
    BY <2>4, <2>5, <2>6 DEF ConfigTypes, D
<1>3. ConfigTypes /\ UNCHANGED Settings!vars => ConfigTypes'
  BY DEF ConfigTypes, Settings!vars, Settings!Domain, Settings!Numbers,
      Settings!Lists, Settings!BoundedSeq, Settings!SeqOf
<1> QED
  BY <1>1, <1>2, <1>3, PTL DEF Settings!Spec

LEMMA ItemsOf ==
    ASSUME NEW S, NEW m \in Nat, NEW l \in Settings!BoundedSeq(S, m)
    PROVE  /\ Len(l) \in Nat /\ DOMAIN l = 1..Len(l)
           /\ \A x \in Settings!ToSet(l) : x \in S
<1>1. PICK k \in 0..m : l \in [1..k -> S]
  BY DEF Settings!BoundedSeq, Settings!SeqOf
<1>2. l \in Seq(S)
  BY <1>1, SeqDef
<1> QED
  BY <1>2, ElementOfSeq, LenProperties DEF Settings!ToSet

(* A list that is not empty has a first item.                              *)
LEMMA NotEmpty ==
    ASSUME NEW S, NEW m \in Nat, NEW l \in Settings!BoundedSeq(S, m),
           l # <<>>
    PROVE  1 \in DOMAIN l
<1>1. PICK k \in 0..m : l \in [1..k -> S]
  BY DEF Settings!BoundedSeq, Settings!SeqOf
<1>2. l \in Seq(S)
  BY <1>1, SeqDef
<1> QED
  BY <1>1, <1>2, EmptySeq, LenProperties

(* The fields that a check needs to know the values of.                    *)
LEMMA FieldTypes ==
    ASSUME ConfigTypes
    PROVE  /\ config.max_wait_ms \in Settings!Numbers
           /\ config.adaptive_max_wait_ms \in Settings!Numbers \union {Missing}
           /\ config.harness_drift_threshold_ms
                \in Settings!Numbers \union {Missing}
           /\ config.harness_error_threshold \in Halves \union {Missing}
           /\ config.repetition_seeds \in Settings!Lists
           /\ config.final_repetitions \in Settings!Lists \union {Missing}
           /\ config.pilot_wait_windows_ms \in Settings!Lists \union {Missing}
           /\ config.final_rates_rps \in Settings!Lists \union {Missing}
           /\ config.final_modes
                \in Settings!BoundedSeq({"direct", "fixed", "fxed"}, MaxItems)
                        \union {Missing}
           /\ config.max_tokens \in Settings!Numbers
           /\ config.temperature \in Settings!Numbers
           /\ config.prompt_buckets \in
                Settings!BoundedSeq([low : Settings!Numbers,
                                     high : Settings!Numbers,
                                     weight : Halves], MaxBuckets)
<1> DEFINE D == Settings!Domain
           F == {"max_wait_ms", "adaptive_max_wait_ms",
                 "harness_drift_threshold_ms", "harness_error_threshold",
                 "repetition_seeds", "final_repetitions",
                 "pilot_wait_windows_ms", "final_rates_rps", "final_modes",
                 "max_tokens", "temperature", "prompt_buckets"}
<1>1. F \subseteq DOMAIN D
  BY DEF Settings!Domain
<1>2. \A field \in F : config[field] \in D[field]
  BY <1>1 DEF ConfigTypes
<1>3. /\ config.max_wait_ms \in D.max_wait_ms
      /\ config.adaptive_max_wait_ms \in D.adaptive_max_wait_ms
      /\ config.harness_drift_threshold_ms
            \in D.harness_drift_threshold_ms
      /\ config.harness_error_threshold
            \in D.harness_error_threshold
      /\ config.repetition_seeds \in D.repetition_seeds
      /\ config.final_repetitions \in D.final_repetitions
      /\ config.pilot_wait_windows_ms \in D.pilot_wait_windows_ms
      /\ config.final_rates_rps \in D.final_rates_rps
      /\ config.final_modes \in D.final_modes
      /\ config.max_tokens \in D.max_tokens
      /\ config.temperature \in D.temperature
      /\ config.prompt_buckets \in D.prompt_buckets
  BY <1>2
<1> QED
  BY <1>3 DEF Settings!Domain

(* What is positive is an integer that the users take.                     *)
LEMMA AcceptedNumbers ==
    ASSUME NEW x \in Settings!Numbers
    PROVE  /\ Settings!Positive(x) => x \in Int /\ x > 0
           /\ Settings!NonNegative(x) <=> x \in Int /\ x >= 0
           /\ Settings!Positive(x) => Settings!NonNegative(x)
<1>1. x \in Int \/ x = NotANumber
  BY SettingsAssumption DEF Settings!Numbers
<1>2. NotANumber \notin Int
  BY SettingsAssumption
<1> QED
  BY <1>1, <1>2 DEF Settings!Positive, Settings!NonNegative

LEMMA GatewayTakes ==
    ASSUME ConfigTypes, Settings!Accepted(config)
    PROVE  Settings!GatewayStarts(config)
<1>1. /\ Settings!Positive(config.max_batch_size)
      /\ Settings!NonNegative(config.max_wait_ms)
      /\ config.adaptive_max_wait_ms # Missing =>
            Settings!Positive(config.adaptive_max_wait_ms)
      /\ config.pilot_wait_windows_ms # Missing =>
            \A w \in Settings!ToSet(config.pilot_wait_windows_ms) :
                Settings!Positive(w)
  BY DEF Settings!Accepted, Settings!OrMissing, Settings!Positives,
      Settings!AllOf
<1>2. Settings!NonNegative(
        Settings!OrDefault(config.adaptive_max_wait_ms, 20))
  <2>1. CASE config.adaptive_max_wait_ms = Missing
    BY <2>1, SettingsAssumption
    DEF Settings!OrDefault, Settings!NonNegative
  <2>2. CASE config.adaptive_max_wait_ms # Missing
    BY <1>1, <2>2, FieldTypes, AcceptedNumbers DEF Settings!OrDefault
  <2> QED
    BY <2>1, <2>2
<1>3. ASSUME config.pilot_wait_windows_ms # Missing,
             NEW w \in Settings!ToSet(config.pilot_wait_windows_ms)
      PROVE  Settings!NonNegative(w)
  <2>1. w \in Settings!Numbers
    BY <1>3, FieldTypes, ItemsOf, SettingsAssumption DEF Settings!Lists
  <2> QED
    BY <1>1, <1>3, <2>1, AcceptedNumbers
<1> QED
  BY <1>1, <1>2, <1>3 DEF Settings!GatewayStarts

LEMMA RunTakes ==
    ASSUME ConfigTypes, Settings!Accepted(config)
    PROVE  Settings!RunStarts(config)
<1>1. /\ Settings!Positive(config.duration_s)
      /\ config.final_rates_rps # Missing =>
            \A rate \in Settings!ToSet(config.final_rates_rps) :
                Settings!Positive(rate)
      /\ config.harness_drift_threshold_ms # Missing =>
            Settings!NonNegative(config.harness_drift_threshold_ms)
      /\ config.harness_error_threshold # Missing =>
            0 <= config.harness_error_threshold
                /\ config.harness_error_threshold <= 2
  BY DEF Settings!Accepted, Settings!OrMissing, Settings!Positives,
      Settings!AllOf, Settings!ThresholdAccepted
<1>2. Settings!NonNegative(
        Settings!OrDefault(config.harness_drift_threshold_ms, 10))
  BY <1>1, SettingsAssumption DEF Settings!OrDefault, Settings!NonNegative
<1>3. Settings!OrDefault(config.harness_error_threshold, 0) \in 0..2
  <2> DEFINE x == config.harness_error_threshold
  <2>1. x \in Halves \union {Missing}
    BY FieldTypes
  <2>2. x # Missing => 0 <= x /\ x <= 2
    BY <1>1
  <2> HIDE DEF x
  <2>3. x # Missing => x \in Int
    BY <2>1, SettingsAssumption
  <2> QED
    BY <2>2, <2>3 DEF Settings!OrDefault, x
<1> QED
  BY <1>1, <1>2, <1>3 DEF Settings!RunStarts

(* The bounds of an accepted bucket are integers.                          *)
LEMMA BucketBounds ==
    ASSUME ConfigTypes, Settings!Accepted(config),
           NEW b \in Settings!ToSet(config.prompt_buckets)
    PROVE  b.low \in Int /\ b.high \in Int /\ b.low > 0
<1> DEFINE R == [low : Settings!Numbers, high : Settings!Numbers,
                 weight : Halves]
<1>1. config.prompt_buckets \in Settings!BoundedSeq(R, MaxBuckets)
  BY FieldTypes
<1> HIDE DEF R
<1>2. b \in R
  BY <1>1, ItemsOf, SettingsAssumption
<1>3. b.low \in Settings!Numbers /\ b.high \in Settings!Numbers
  BY <1>2 DEF R
<1>4. Settings!BucketAccepted(b)
  BY DEF Settings!Accepted, Settings!BucketsAccepted, Settings!AllOf
<1> QED
  BY <1>3, <1>4, AcceptedNumbers DEF Settings!BucketAccepted

(* A number of tokens beyond the Extra that a seed divides is that of some *)
(* number of its copies, and of no more copies than tokens.                *)
LEMMA CopiesOf ==
    ASSUME NEW length \in Nat \ {0}, NEW tokens \in Int, Extra \in Nat
    PROVE  tokens > Extra /\ (tokens - Extra) % length = 0
             <=> \E copies \in 1..tokens : tokens = Extra + copies * length
<1>1. ASSUME tokens > Extra, (tokens - Extra) % length = 0
      PROVE  \E copies \in 1..tokens : tokens = Extra + copies * length
  <2> DEFINE d == tokens - Extra
             q == d \div length
  <2>1. d \in Int /\ d > 0 /\ d <= tokens /\ tokens = Extra + d
    BY <1>1
  <2>2. d % length = 0
    BY <1>1
  <2> HIDE DEF d
  <2>3. q \in Int /\ d = q * length
    BY <2>1, <2>2
  <2> HIDE DEF q
  <2>4. q >= 1
    BY <2>1, <2>3
  <2>5. q <= q * length
    BY <2>3, <2>4
  <2>6. q \in 1..tokens
    BY <2>1, <2>3, <2>4, <2>5
  <2> QED
    BY <2>1, <2>3, <2>6
<1>2. ASSUME NEW copies \in 1..tokens, tokens = Extra + copies * length
      PROVE  tokens > Extra /\ (tokens - Extra) % length = 0
  <2> DEFINE d == copies * length
  <2>1. d \in Int /\ d >= 1
    OBVIOUS
  <2>2. d % length = 0
    OBVIOUS
  <2> HIDE DEF d
  <2>3. tokens = Extra + d
    BY <1>2 DEF d
  <2>4. tokens > Extra /\ tokens - Extra = d
    BY <2>1, <2>3
  <2> QED
    BY <2>2, <2>4
<1> QED
  BY <1>1, <1>2

(* The loop over copies of a seed finds what there is in a bucket.         *)
LEMMA PromptsTake ==
    ASSUME ConfigTypes, Settings!Accepted(config)
    PROVE  Settings!PromptsExist(config) <=>
             \A b \in Settings!ToSet(config.prompt_buckets),
                length \in SeedTokens :
                \E tokens \in b.low..b.high :
                    tokens > Extra /\ (tokens - Extra) % length = 0
<1>1. config.prompt_buckets # <<>>
  BY DEF Settings!Accepted, Settings!BucketsAccepted, Settings!AllOf
<1>2. ASSUME NEW b \in Settings!ToSet(config.prompt_buckets),
             NEW length \in SeedTokens
      PROVE  (\E copies \in 1..b.high :
                 Extra + copies * length \in b.low..b.high)
             <=> \E tokens \in b.low..b.high :
                    tokens > Extra /\ (tokens - Extra) % length = 0
  <2>1. /\ length \in Nat \ {0} /\ Extra \in Nat
        /\ b.low \in Int /\ b.high \in Int /\ b.low > 0
    BY BucketBounds, SettingsAssumption
  <2> DEFINE l == b.low
             h == b.high
  <2> HIDE DEF l, h
  <2>2. l \in Int /\ h \in Int /\ l > 0
    BY <2>1 DEF l, h
  <2>3. ASSUME NEW copies \in 1..h, Extra + copies * length \in l..h
        PROVE  \E tokens \in l..h :
                    tokens > Extra /\ (tokens - Extra) % length = 0
    <3> DEFINE tokens == Extra + copies * length
    <3>1. tokens \in l..h /\ tokens \in Int
      BY <2>2, <2>3
    <3>2. copies * length >= copies
      BY <2>1
    <3>3. copies \in 1..tokens
      BY <2>1, <2>2, <3>2
    <3>4. tokens = Extra + copies * length
      OBVIOUS
    <3> HIDE DEF tokens
    <3>5. tokens > Extra /\ (tokens - Extra) % length = 0
      BY <2>1, <3>1, <3>3, <3>4, CopiesOf
    <3> QED
      BY <3>1, <3>5
  <2>4. ASSUME NEW tokens \in l..h,
               tokens > Extra, (tokens - Extra) % length = 0
        PROVE  \E copies \in 1..h : Extra + copies * length \in l..h
    <3>1. tokens \in Int /\ tokens <= h
      BY <2>2
    <3>2. PICK copies \in 1..tokens : tokens = Extra + copies * length
      BY <2>1, <2>4, <3>1, CopiesOf
    <3>3. copies \in 1..h
      BY <2>2, <3>1
    <3> QED
      BY <3>2, <3>3
  <2> QED
    BY <2>3, <2>4 DEF l, h
<1> QED
  BY <1>1, <1>2 DEF Settings!PromptsExist

(* The requests are what the gateway takes if they keep to its limits.     *)
LEMMA RequestsTake ==
    ASSUME ConfigTypes, Settings!Accepted(config)
    PROVE  Settings!RequestsTaken(config) <=>
             (Settings!AsksGateway(config) =>
                /\ config.max_tokens <= MaxTokens
                /\ config.temperature <= MaxTemperature)
<1>1. /\ Settings!Positive(config.max_tokens)
      /\ Settings!NonNegative(config.temperature)
  BY DEF Settings!Accepted
<1> QED
  BY <1>1 DEF Settings!RequestsTaken

(* No two turns of three nested loops over lists have the same items.      *)
AllDistinct(modes, reps, rates) ==
    \A j, k \in (DOMAIN modes) \X (DOMAIN reps) \X (DOMAIN rates) :
        <<modes[j[1]], reps[j[2]], rates[j[3]]>>
            = <<modes[k[1]], reps[k[2]], rates[k[3]]>> => j = k

AllInjective(modes, reps, rates) ==
    /\ Settings!IsInjective(modes) /\ Settings!IsInjective(reps)
    /\ Settings!IsInjective(rates)

(* Two turns have one directory only if a list repeats itself, and every   *)
(* repetition of a list gives two such turns.                              *)
LEMMA Directories ==
    ASSUME NEW modes, NEW reps, NEW rates,
           NEW m0 \in DOMAIN modes, NEW r0 \in DOMAIN reps,
           NEW q0 \in DOMAIN rates
    PROVE  AllDistinct(modes, reps, rates) <=> AllInjective(modes, reps, rates)
<1> DEFINE T == (DOMAIN modes) \X (DOMAIN reps) \X (DOMAIN rates)
           Id(t) == <<modes[t[1]], reps[t[2]], rates[t[3]]>>
           Distinct == \A j, k \in T : Id(j) = Id(k) => j = k
<1>1. ASSUME Distinct
      PROVE  /\ Settings!IsInjective(modes) /\ Settings!IsInjective(reps)
             /\ Settings!IsInjective(rates)
  <2>1. ASSUME NEW a \in DOMAIN modes, NEW b \in DOMAIN modes,
               modes[a] = modes[b]
        PROVE  a = b
    <3>1. <<a, r0, q0>> \in T /\ <<b, r0, q0>> \in T
      OBVIOUS
    <3>2. Id(<<a, r0, q0>>) = Id(<<b, r0, q0>>)
      BY <2>1
    <3>3. <<a, r0, q0>> = <<b, r0, q0>>
      BY <1>1, <3>1, <3>2
    <3> QED
      BY <3>3
  <2>2. ASSUME NEW a \in DOMAIN reps, NEW b \in DOMAIN reps,
               reps[a] = reps[b]
        PROVE  a = b
    <3>1. <<m0, a, q0>> \in T /\ <<m0, b, q0>> \in T
      OBVIOUS
    <3>2. Id(<<m0, a, q0>>) = Id(<<m0, b, q0>>)
      BY <2>2
    <3>3. <<m0, a, q0>> = <<m0, b, q0>>
      BY <1>1, <3>1, <3>2
    <3> QED
      BY <3>3
  <2>3. ASSUME NEW a \in DOMAIN rates, NEW b \in DOMAIN rates,
               rates[a] = rates[b]
        PROVE  a = b
    <3>1. <<m0, r0, a>> \in T /\ <<m0, r0, b>> \in T
      OBVIOUS
    <3>2. Id(<<m0, r0, a>>) = Id(<<m0, r0, b>>)
      BY <2>3
    <3>3. <<m0, r0, a>> = <<m0, r0, b>>
      BY <1>1, <3>1, <3>2
    <3> QED
      BY <3>3
  <2> QED
    BY <2>1, <2>2, <2>3 DEF Settings!IsInjective
<1>2. ASSUME Settings!IsInjective(modes), Settings!IsInjective(reps),
             Settings!IsInjective(rates)
      PROVE  Distinct
  <2> SUFFICES ASSUME NEW j \in T, NEW k \in T, Id(j) = Id(k)
               PROVE  j = k
    OBVIOUS
  <2>1. /\ j[1] \in DOMAIN modes /\ k[1] \in DOMAIN modes
        /\ j[2] \in DOMAIN reps /\ k[2] \in DOMAIN reps
        /\ j[3] \in DOMAIN rates /\ k[3] \in DOMAIN rates
        /\ j = <<j[1], j[2], j[3]>> /\ k = <<k[1], k[2], k[3]>>
    OBVIOUS
  <2>2. /\ modes[j[1]] = modes[k[1]] /\ reps[j[2]] = reps[k[2]]
        /\ rates[j[3]] = rates[k[3]]
    OBVIOUS
  <2>3. j[1] = k[1] /\ j[2] = k[2] /\ j[3] = k[3]
    BY <1>2, <2>1, <2>2 DEF Settings!IsInjective
  <2> QED
    BY <2>1, <2>3
<1> QED
  BY <1>1, <1>2 DEF AllDistinct, AllInjective

(* A list that is not missing was accepted, so it is not empty.            *)
LEMMA MatrixTakes ==
    ASSUME ConfigTypes, Settings!Accepted(config)
    PROVE  Settings!MatrixRuns(config) <=>
             /\ config.final_modes # Missing
             /\ config.final_repetitions # Missing
             /\ config.final_rates_rps # Missing
             /\ config.resume_existing \/
                 /\ Settings!IsInjective(config.final_modes)
                 /\ Settings!IsInjective(config.final_repetitions)
                 /\ Settings!IsInjective(config.final_rates_rps)
<1> SUFFICES ASSUME config.final_modes # Missing,
                    config.final_repetitions # Missing,
                    config.final_rates_rps # Missing
             PROVE  Settings!MatrixRuns(config) <=>
                      config.resume_existing \/
                        /\ Settings!IsInjective(config.final_modes)
                        /\ Settings!IsInjective(config.final_repetitions)
                        /\ Settings!IsInjective(config.final_rates_rps)
  BY DEF Settings!MatrixRuns
<1>1. /\ config.final_modes # <<>> /\ config.final_repetitions # <<>>
      /\ config.final_rates_rps # <<>>
      /\ Len(config.final_repetitions) <= Len(config.repetition_seeds)
      /\ Settings!ToSet(config.final_modes) \subseteq
            {"direct", "pass_through", "fixed", "adaptive"}
  BY DEF Settings!Accepted, Settings!OrMissing, Settings!ModesAccepted,
      Settings!RepetitionsAccepted, Settings!Positives, Settings!AllOf
<1>2. /\ config.final_modes \in
            Settings!BoundedSeq({"direct", "fixed", "fxed"}, MaxItems)
      /\ config.final_repetitions \in
            Settings!BoundedSeq(Settings!Numbers, MaxItems)
      /\ config.final_rates_rps \in
            Settings!BoundedSeq(Settings!Numbers, MaxItems)
      /\ config.repetition_seeds \in
            Settings!BoundedSeq(Settings!Numbers, MaxItems)
  BY FieldTypes DEF Settings!Lists
<1>3. DOMAIN config.final_repetitions \subseteq DOMAIN config.repetition_seeds
  <2>1. /\ DOMAIN config.final_repetitions = 1..Len(config.final_repetitions)
        /\ DOMAIN config.repetition_seeds = 1..Len(config.repetition_seeds)
        /\ Len(config.final_repetitions) \in Nat
        /\ Len(config.repetition_seeds) \in Nat
    BY <1>2, ItemsOf, SettingsAssumption
  <2> QED
    BY <1>1, <2>1
<1>4. /\ 1 \in DOMAIN config.final_modes
      /\ 1 \in DOMAIN config.final_repetitions
      /\ 1 \in DOMAIN config.final_rates_rps
  BY <1>1, <1>2, NotEmpty, SettingsAssumption
<1> DEFINE modes == config.final_modes
           reps == config.final_repetitions
           rates == config.final_rates_rps
           Distinct == AllDistinct(modes, reps, rates)
           Injective == AllInjective(modes, reps, rates)
<1>5. Distinct <=> Injective
  <2>1. 1 \in DOMAIN modes /\ 1 \in DOMAIN reps /\ 1 \in DOMAIN rates
    BY <1>4
  <2> HIDE DEF modes, reps, rates
  <2> QED
    BY <2>1, Directories
<1>6. Settings!MatrixRuns(config) <=> (~config.resume_existing => Distinct)
  BY <1>1, <1>3
  DEF Settings!MatrixRuns, Settings!Turns, Settings!RunId, AllDistinct
<1> HIDE DEF Distinct, Injective
<1>7. (~config.resume_existing => Distinct)
        <=> config.resume_existing \/ Injective
  BY <1>5
<1> QED
  BY <1>6, <1>7 DEF Injective, AllInjective

(* A configuration that is accepted runs through if and only if it is      *)
(* right in what the loader leaves to its author: no other value of its    *)
(* fields makes the gateway raise, nor the prompts, a run, or the matrix   *)
(* in its middle.  For all values, limits, seeds and any number of edits.  *)
THEOREM AcceptedConfigsRun == Settings!Spec => []AcceptedRuns
<1>1. ASSUME ConfigTypes, Settings!Accepted(config)
      PROVE  Settings!RunsThrough(config) <=> Settings!LeftToAuthor(config)
  <2>1. Settings!GatewayStarts(config) /\ Settings!RunStarts(config)
    BY <1>1, GatewayTakes, RunTakes
  <2> QED
    BY <1>1, <2>1, PromptsTake, RequestsTake, MatrixTakes
    DEF Settings!RunsThrough, Settings!LeftToAuthor, Settings!AsksGateway
<1>2. ConfigTypes => AcceptedRuns
  BY <1>1 DEF AcceptedRuns, Settings!AcceptedRuns
<1> QED
  BY ConfigInvariant, <1>2, PTL

=============================================================================
