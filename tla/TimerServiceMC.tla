--------------------------- MODULE TimerServiceMC ---------------------------
(* Requests and an earlier entry for TLC. The entry starts at 1, the limit *)
(* is 2 and the requests come at 6: whatever runs has run away.            *)
EXTENDS TimerService

CONSTANTS here, there     \* two workspaces

Ask(kind, ws, reach, id, start, end, resolution) ==
  [kind |-> kind, ws |-> ws, reach |-> reach, id |-> id,
   start |-> start, end |-> end, resolution |-> resolution]

By(kind, id, start, end) == Ask(kind, here, None, id, start, end, "keep")

Starts == {By("start", None, 6, 0), Ask("start", there, there, None, 6, 0, "keep")}

Stops == {By("stop", None, NotGiven, 5), Ask("stop", there, there, None, NotGiven, 5, "keep")}

Looks == {By("look", None, 6, 0)}

Discards == {By("discard", Old, NotGiven, 0)}

Resolves == {Ask("resolve", here, None, Old, NotGiven, NotGiven, "keep"),
             Ask("resolve", here, None, Old, NotGiven, NotGiven, "restore"),
             Ask("resolve", here, None, Old, 3, 4, "end-at")}

\* Of the description, of the start, of the end, and one that reopens.
Edits == {By("edit", Old, NotGiven, NotGiven), By("edit", Old, 2, NotGiven),
          By("edit", Old, NotGiven, 7), By("edit", Old, NotGiven, 0)}

Tracking == Starts \cup Stops \cup Looks \cup Resolves

All == Tracking \cup Discards \cup Edits

\* Made while the limit was another.
KeptMark == [elapsed |-> 3, limit |-> 1, action |-> "flagged", resolved |-> TRUE]

EarlierEntries ==
  {None, Entry(here, 1, 0, 0, None), Entry(here, 1, 0, 0, KeptMark), Entry(here, 1, 4, 3, None)}

Setup(transactional, behavior, requests) ==
  [transactional |-> transactional, behavior |-> behavior, requests |-> requests]

TransactionsAndNot ==
  [replicas |-> Setup(TRUE, "cap", All), standalone |-> Setup(FALSE, "ask", Tracking)]

EditsStandalone ==
  [standalone |-> Setup(FALSE, "off", {By("edit", Old, NotGiven, NotGiven), By("stop", None, NotGiven, 5)})]
=============================================================================
