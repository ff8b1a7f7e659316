-------------------------------- MODULE Lists -------------------------------
(* What the code does with iterators over lists and sets of numbers, where *)
(* sum, filter and sort are used.                                          *)
EXTENDS Integers, Sequences, FiniteSets, SequencesExt

(* Iterator::sum. *)
Total(numbers) == FoldLeft(LAMBDA sum, number : sum + number, 0, numbers)

(* The elements at some places, in their order: a filter. *)
Picked(list, places) ==
    FoldLeftDomain(LAMBDA picked, i : IF i \in places THEN Append(picked, list[i]) ELSE picked, <<>>, list)

(* A set of numbers, the largest or the smallest first. *)
Descending(numbers) ==
    [i \in 1..Cardinality(numbers) |-> CHOOSE x \in numbers : Cardinality({y \in numbers : y > x}) = i - 1]
Ascending(numbers) == Reverse(Descending(numbers))

(* sort_by_key: elements with one key keep their order. *)
Sorted(list, keys) ==
    LET Before(i) == {j \in DOMAIN list : keys[j] < keys[i] \/ (keys[j] = keys[i] /\ j < i)}
    IN [k \in DOMAIN list |-> list[CHOOSE i \in DOMAIN list : Cardinality(Before(i)) = k - 1]]
=============================================================================
