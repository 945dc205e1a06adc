---------------------------- MODULE VllmChoices ----------------------------
(***************************************************************************)
(* How VllmBackend (backends/vllm.py) gives the choices of one completion  *)
(* response back to the prompts of one batch, between a server that may    *)
(* answer in any order and a batcher that settles its callers by position. *)
(* A response starts as the right one and goes wrong step by step.         *)
(*                                                                         *)
(* Definitions ending in Bug are seeded faults, see Batcher.               *)
(***************************************************************************)
EXTENDS Integers, Sequences, SequencesExt, Functions

CONSTANTS
    MaxPrompts,  \* bound: prompts of a batch
    MaxFaults,   \* bound: what goes wrong with one response
    NoIndex,     \* a choice without "index", or not an object at all
    BadIndex,    \* an index that is not an integer
    NoText       \* a choice without "text", or not an object at all

ASSUME VllmAssumption ==
    /\ MaxPrompts \in Nat \ {0} /\ MaxFaults \in Nat
    /\ {NoIndex, BadIndex} \cap Int = {} /\ NoText \notin Int
    /\ NoIndex # BadIndex

VARIABLES
    n,        \* the prompts sent, 0..n-1 in their order
    choices,  \* the response
    faults    \* what has happened to it, by kind and in order

vars == <<n, choices, faults>>

(* A choice, with its text named by the prompt that it completes.          *)
Choice(index, text) == [index |-> index, text |-> text]

-----------------------------------------------------------------------------
(* The adapter                                                             *)

Indices(cs) == [k \in 1..Len(cs) |-> cs[k].index]

Unlabelled(cs) == \A k \in 1..Len(cs) : cs[k].index = NoIndex

(* Indices count from one.                                                 *)
LabelledBug(cs, count) ==
    Range(Indices(cs)) \subseteq 1..count /\ IsInjective(Indices(cs))

(* All have an index, in range and no two the same.                        *)
Labelled(cs, count) ==
    Range(Indices(cs)) \subseteq 0..(count - 1) /\ IsInjective(Indices(cs))

Accepted(cs, count) ==
    /\ Len(cs) = count
    /\ Unlabelled(cs) \/ Labelled(cs, count)
    /\ \A k \in 1..Len(cs) : cs[k].text # NoText

(* The indices are checked and then ignored.                               *)
OrderedBug(cs) == cs

(* _order_choices: where there are indices, the choice for a prompt is the *)
(* one that has its number.                                                *)
Ordered(cs) ==
    IF Unlabelled(cs) THEN cs
    ELSE [p \in 1..Len(cs) |->
            cs[CHOOSE k \in 1..Len(cs) : cs[k].index = p - 1]]

(* What the batcher gets, one for each prompt, if it gets anything.        *)
Outputs == [p \in 1..n |-> Ordered(choices)[p].text]

-----------------------------------------------------------------------------
(* The server                                                              *)

Positions == 1..Len(choices)

Fault(kind) == Len(faults) < MaxFaults /\ faults' = Append(faults, kind)

Init ==
    /\ n \in 1..MaxPrompts
    /\ \E labels \in BOOLEAN :
        choices = [k \in 1..n |->
                    Choice(IF labels THEN k - 1 ELSE NoIndex, k - 1)]
    /\ faults = <<>>

Swap == \E j, k \in Positions :
    /\ j < k /\ Fault("order")
    /\ choices' = [choices EXCEPT ![j] = choices[k], ![k] = choices[j]]

Drop == \E k \in Positions :
    Fault("lost") /\ choices' = RemoveAt(choices, k)

Repeat == \E k \in Positions :
    Fault("twice") /\ choices' = Append(choices, choices[k])

Relabel == \E k \in Positions : \E index \in {-1, n, NoIndex, BadIndex} :
    Fault("label") /\ choices' = [choices EXCEPT ![k].index = index]

Garble == \E k \in Positions :
    Fault("text") /\ choices' = [choices EXCEPT ![k].text = NoText]

Next == (Swap \/ Drop \/ Repeat \/ Relabel \/ Garble) /\ UNCHANGED n

Spec == Init /\ [][Next]_vars

-----------------------------------------------------------------------------
TypeOK ==
    /\ n \in 1..MaxPrompts
    /\ choices \in Seq([index : Int \union {NoIndex, BadIndex},
                        text : 0..(n - 1) \union {NoText}])
    /\ faults \in Seq({"order", "lost", "twice", "label", "text"})

(* No caller gets the completion of another: of a response with indices    *)
(* every prompt gets its own text or the batch fails, whatever was lost,   *)
(* repeated, moved, unlabelled or garbled.  Without indices the order of   *)
(* the response is all there is, and that must not have changed.           *)
OwnText ==
    Accepted(choices, n) =>
        \/ \A p \in 1..n : Outputs[p] = p - 1
        \/ Unlabelled(choices) /\ Range(faults) \cap {"order", "lost"} # {}

(* A complete answer is never refused for its order, nor for having no     *)
(* indices.                                                                *)
OrderIsNoError ==
    Range(faults) \subseteq {"order"} => Accepted(choices, n)

(* The adapter gives nobody a wrong text, and everybody the text there is. *)
TextsGivenBack == OwnText /\ OrderIsNoError
=============================================================================
