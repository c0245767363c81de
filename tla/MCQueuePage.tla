----------------------------- MODULE MCQueuePage ---------------------------
(* Two findings, of which the second repeats the first, quotes a comment    *)
(* and alone is serious; the page grouped by twin and by file, row by row,  *)
(* and the walk through the declines that were given no word.               *)
EXTENDS QueuePage

CONSTANTS f1, f2, w1
MCFindings == {f1, f2}
MCTwin == [f \in MCFindings |-> IF f = f2 THEN f1 ELSE None]
MCComments == {f2}
MCSerious == {f2}
MCWords == {w1}
MCSuggestions == {[t \in Targets |-> IF t = kind THEN w1 ELSE None] : kind \in Targets \union {None}}
MCViews == {View(kind, FALSE, FALSE) : kind \in {"repeat", "rows", "walk"}}
               \union {View("file", TRUE, TRUE)}

\* The page grouped by file alone.
MCFileViews == {View("file", TRUE, TRUE)}
=============================================================================
