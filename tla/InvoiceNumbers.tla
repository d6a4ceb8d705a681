--------------------------- MODULE InvoiceNumbers ---------------------------
(***************************************************************************)
(* Invoice numbers within one workspace and year, as billing reads them    *)
(* back: INV-2026-0007 is stored as text, so "the latest number" is the    *)
(* one that sorts last as text (ORDER BY number DESC in billing.service.ts *)
(* issue).  A number stands for its sequence; its text is that sequence in *)
(* base Base, padded with zeros to at least Width digits (padStart(4, '0') *)
(* in invoice-state.ts).  The year, the same for every number here, is     *)
(* left out: a number of an earlier year sorts before all of them and      *)
(* counts as none (sequenceOf).                                            *)
(***************************************************************************)
EXTENDS Integers

CONSTANTS Base,   \* 10
          Width   \* 4

ASSUME NumeralAssumption == Base \in Nat \ {0, 1} /\ Width \in Nat \ {0}

\* How many digits the text of n has.
Digits(n) ==
    CHOOSE d \in Width..(Width + n) : n < Base^d /\ (d = Width \/ Base^(d - 1) <= n)

\* The text of m sorts before the text of n: the shorter one is compared with
\* as many leading digits of the longer one, and is first if they are equal.
TextBefore(m, n) ==
    IF Digits(m) < Digits(n) THEN m <= n \div Base^(Digits(n) - Digits(m))
                             ELSE m \div Base^(Digits(m) - Digits(n)) < n

\* n is what the query for the latest of these numbers returns.
IsLatest(n, numbers) == n \in numbers /\ \A m \in numbers \ {n} : TextBefore(m, n)

\* Mutation of NextNumbers: one is skipped.
NextNumbersSkipping(numbers) ==
    IF numbers = {} THEN {1} ELSE {n + 2 : n \in {m \in numbers : IsLatest(m, numbers)}}

\* The number an issue will ask for when these are taken: a set of one.
NextNumbers(numbers) ==
    IF numbers = {} THEN {1} ELSE {n + 1 : n \in {m \in numbers : IsLatest(m, numbers)}}
=============================================================================
