--------------------------- MODULE MCHostFlasher ---------------------------
(* HostFlasher with two files that differ in every block, one of which     *)
(* ends within a buffer and one at the end of it.                          *)
EXTENDS HostFlasher

CONSTANTS x, y

Payloads == {x, y, Erased}
Quarters == [d \in Payloads \cup {Garbage} |-> IF d = Erased THEN 4 ELSE 0]
Boards == {<<"stm32", "can">>, <<"stm32", "usb">>, <<"lpc176x", "serial">>, <<"rp2040", "can">>}
LpcBoards == {<<"lpc176x", "serial">>}
Files == {<<x, x, x, x, x>>, <<y, y, y, y>>}
=============================================================================
