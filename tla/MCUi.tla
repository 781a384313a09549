-------------------------------- MODULE MCUi --------------------------------
(* Two tabs, one of them Memory; the characters of a term are also the    *)
(* ones that switch tabs.  The smaller terminal shows one line of memory,  *)
(* the larger two.                                                         *)
EXTENDS Ui, TLC

MCTabs == {0, 3}
MCPrintable == {"1", "4"}
MCTabKey == ("1" :> 0) @@ ("4" :> 3)
MCHeights == {4, 5}
MCSections == {"zero"}
==============================================================================
