---------------------------- MODULE MCVerdictRules ----------------------------
(* VerdictRules for TLC: 40 CFR 257.3, or its part, against texts made of a    *)
(* few words of every kind.                                                    *)
EXTENDS VerdictRules

MCNumbers == {"257.3", "257", "30"}

\* "3" is a substring of "30" too.
MCWithin == [n \in MCNumbers |->
    IF n = "257.3" THEN {"257.3", "257", "3"} ELSE IF n = "30" THEN {"3"} ELSE {"257"}]
MCNamed == [n \in MCNumbers |-> IF n = "257.3" THEN {"257.3", "3"} ELSE {}]

MCScopes ==
    { NoScope,
      [part |-> "257", section |-> None, last |-> None],
      [part |-> "257", section |-> "257.3", last |-> "3"],
      [part |-> "257", section |-> "3", last |-> None],
      [part |-> "257 (", section |-> "257.3", last |-> "3"] }

MCClauseTexts ==
    SUBSET {"shall", "you must", "agrees to", "always answer", "waste", "257.3", "257"}
        \ {{}}
MCRegulationTexts ==
    SUBSET {"shall", "must", "forbidden", "may not", "waste", "257.3", "30"} \ {{}}
=============================================================================
