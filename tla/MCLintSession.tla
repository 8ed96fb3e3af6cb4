----------------------------- MODULE MCLintSession -----------------------------
(* Instances of LintSession for TLC: two categories, and configurations that  *)
(* decide on one, on both, twice on one, and wrongly.                         *)
EXTENDS LintSession

CONSTANTS c1, c2

F(s, c) == [sign |-> s, cat |-> c]

\* What a level says: nothing, nothing that can be read, or options.
Says(lines, stop, regex) ==
  [kind |-> "options", filters |-> lines, noparent |-> stop, pattern |-> regex]
Level(k) == [kind |-> k, filters |-> <<>>, noparent |-> FALSE, pattern |-> "none"]

MCConfigs ==
  { Level("absent"), Level("unreadable"), Level("garbled"),
    Says(<< <<F("-", c1)>> >>, FALSE, "none"),
    Says(<< <<F("-", c1), F("+", c1), F("-", c2)>>, <<F("-", c1)>> >>, FALSE, "valid"),
    Says(<< <<F("+", c1)>>, <<F("-", c1), F("-", c2)>> >>, TRUE, "none"),
    Says(<< <<F("none", c2)>> >>, FALSE, "none"),
    Says(<<>>, FALSE, "invalid") }

MCCmdFilters == { <<F("-", c2), F("+", c2), F("-", c1)>> }

MCMarkers == { {}, {c1} }
=============================================================================
