----------------------------- MODULE LinearTable -----------------------------
(***************************************************************************)
(* The linear table of libmatch (class linearTable): rules in the order of *)
(* their insertion, searched from the front.  It is the reference the      *)
(* other matchers are compared with.                                       *)
(***************************************************************************)
EXTENDS MatchRules, SequencesExt

SameRule(a, b) == a.value = b.value /\ a.mask = b.mask

\* Mutant: a rule that is there is added again.
InsertDuplicates(table, rule) == Append(table, [rule EXCEPT !.value = @ \ rule.mask])
\* The value is cleaned of masked bits; a rule that is there is not added again.
InsertIntoTable(table, rule) ==
  LET clean == [rule EXCEPT !.value = @ \ rule.mask]
  IN IF \E i \in DOMAIN table : SameRule(table[i], clean) THEN table
     ELSE Append(table, clean)

\* The loop skips the entry behind one that it erases: of equal entries in a row it
\* erases every other.
DeleteFromTable(table, rule) ==
  LET clean == [rule EXCEPT !.value = @ \ rule.mask]
      same == { i \in DOMAIN table : SameRule(table[i], clean) }
      erased == { i \in same : (i - Max((0 .. i) \ same)) % 2 = 1 }
  IN Pick(table, DOMAIN table \ erased)

\* search_rule: the priority of the first match, zero for a miss.
SearchTable(table, key) ==
  LET matching == { i \in DOMAIN table : Matches(table[i], key) }
  IN IF matching = {} THEN 0 ELSE table[Min(matching)].priority
=============================================================================
