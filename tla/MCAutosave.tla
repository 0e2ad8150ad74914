------------------------------- MODULE MCAutosave -------------------------------
EXTENDS Autosave

CONSTANTS w1, w2

\* One window is used at length; the other saves an edit of its own.
Edits == [w \in Windows |-> IF w = w1 THEN 2 ELSE 1]
Alone == [w \in Windows |-> IF w = w1 THEN 4 ELSE 2]

===============================================================================
