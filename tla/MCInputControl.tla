--------------------------- MODULE MCInputControl ---------------------------
(* A keyboard with the aliased pair Enter / NumpadEnter and the Windows key,  *)
(* one mouse button, and limits small enough to be hit.                      *)
EXTENDS InputControl

MCVirtualKey == [c \in KeyCode |->
    IF c = "MetaLeft" THEN "VK_LWIN" ELSE "VK_RETURN"]
=============================================================================
