------------------------------- MODULE PageShell -------------------------------
(***************************************************************************)
(* What the pages of the frontend have in common: one page is open and its  *)
(* state is a record whose field `name` says which; requests leave it,      *)
(* are handled by the server in any order, and are answered in any order.   *)
(***************************************************************************)
EXTENDS Integers, Sequences, FiniteSets, SequencesExt, FiniteSetsExt, TLC

CONSTANTS
  None,       \* null or undefined where a value is expected
  MaxClicks   \* bound on what the user does, for each page

\* null is no number.
ASSUME NoneAssumption == None \notin Nat

VARIABLE page        \* the state of the open page: its name and its own fields

On(name) == page.name = name
CanClick == page.clicks < MaxClicks[page.name]
\* The fields of f, and those of g that f has not (the provers do not know TLC's @@).
f ++ g == [x \in DOMAIN f \cup DOMAIN g |-> IF x \in DOMAIN f THEN f[x] ELSE g[x]]
\* The fields that a step of the page changes; it stays the page it is.
Change(fields) ==
  page' = [x \in DOMAIN page |-> IF x # "name" /\ x \in DOMAIN fields THEN fields[x] ELSE page[x]]
\* ... when the step is something the user does.
Click(fields) == CanClick /\ Change(fields ++ [clicks |-> page.clicks + 1])

\* The elements of s that are in K, in their order: what filter keeps (the provers
\* cannot expand SelectSeq).
Keep(s, K) ==
  LET kept[k \in 0 .. Len(s)] ==
        IF k = 0 THEN <<>> ELSE IF s[k] \in K THEN Append(kept[k - 1], s[k]) ELSE kept[k - 1]
  IN kept[Len(s)]

\* Math.max(0, n)
NotNegative(n) == IF n < 0 THEN 0 ELSE n
=============================================================================
