-------------------------------- MODULE Rules --------------------------------
(***************************************************************************)
(* The registry of dated rules (engines/rules.py): an immutable sequence,  *)
(* resolved for a jurisdiction, a name and a day.  A jurisdiction is the   *)
(* sequence of its parts, <<"ON", "Toronto">> for ON/Toronto.              *)
(***************************************************************************)
EXTENDS Integers, SequencesExt

CONSTANTS
    RuleBook, \* a sequence of rules
    NoEnd     \* the effective_to of a rule that has no end

ASSUME BookAssumption ==
    \A i \in DOMAIN RuleBook :
        LET rule == RuleBook[i]
        IN  /\ rule.from \in Nat /\ rule.version \in Nat
            /\ rule.to = NoEnd \/ (rule.to \in Nat /\ rule.from <= rule.to)
            /\ rule.jurisdiction \in Seq(ToSet(rule.jurisdiction)) \ {<<>>}

\* Mutant: a rule ends the day before its last day.
AppliesTooShort(rule, day) == rule.from <= day /\ (rule.to = NoEnd \/ day < rule.to)

Applies(rule, day) == rule.from <= day /\ (rule.to = NoEnd \/ day <= rule.to)

\* A jurisdiction, what it lies in, and the country.
Candidates(jurisdiction) ==
    {SubSeq(jurisdiction, 1, k) : k \in DOMAIN jurisdiction} \cup {<<"CA">>}

\* The country comes last.
Specificity(scope) == IF scope = <<"CA">> THEN 0 ELSE Len(scope)

Governs(rule, jurisdiction, name, day) ==
    /\ rule.name = name
    /\ rule.active
    /\ rule.jurisdiction \in Candidates(jurisdiction)
    /\ Applies(rule, day)

\* The rules that apply, in the order of the book.
Matches(jurisdiction, name, day) ==
    SelectSeq(RuleBook, LAMBDA rule : Governs(rule, jurisdiction, name, day))

\* The more specific rule wins, then the later effective_from, then the higher version.
Rank(rule) == <<Specificity(rule.jurisdiction), rule.from, rule.version>>

Supersedes(rule, other) ==
    \E k \in 1..3 : /\ Rank(rule)[k] > Rank(other)[k]
                    /\ \A l \in 1..(k - 1) : Rank(rule)[l] = Rank(other)[l]

Exists(jurisdiction, name, day) == Matches(jurisdiction, name, day) # <<>>

\* Of equals, the first in the book.
Find(jurisdiction, name, day) ==
    LET matches == Matches(jurisdiction, name, day)
    IN  FoldLeft(LAMBDA best, rule : IF Supersedes(rule, best) THEN rule ELSE best,
                 Head(matches), matches)

Value(jurisdiction, name, day) == Find(jurisdiction, name, day).value
=============================================================================
