--------------------------- MODULE MCBridgeServer ---------------------------
(* Instances of BridgeServer for TLC. *)
EXTENDS BridgeServer

CONSTANTS p1, p2, c1, c2, c3, k1, k2

\* Ops: one excel op of the first protocol version, a newer excel op, a word
\* op, and one that this server does not know.
AllCatalog == {"excel.read", "excel.format", "word.read"}
FirstOps == {"excel.read", "word.read"}
HostOfOp == [op \in AllCatalog \cup {"excel.chart"} |->
                IF op = "word.read" THEN "word" ELSE "excel"]

AllExcel == [p \in Panes |-> "excel"]
WordToo == [p \in Panes |-> IF p = p2 THEN "word" ELSE "excel"]

\* Which ops the panes advertise.
FullAndLegacy == [p \in Panes |-> IF p = p1 THEN {"excel.read", "excel.format"} ELSE {}]
NewAndUnknown == [p \in Panes |-> IF p = p1 THEN {"excel.format", "excel.chart"}
                                  ELSE IF p = p2 THEN {"word.read"} ELSE {}]

\* Which pane opens which socket.
Reconnecting == [c \in Conns |-> IF c = c3 THEN p2 ELSE p1]
WordBetween == [c \in Conns |-> IF c = c2 THEN p2 ELSE p1]

\* Which op a call asks for.
FormatAndRead == [k \in Calls |-> IF k = k1 THEN "excel.format" ELSE "excel.read"]
WordAndRead == [k \in Calls |-> IF k = k1 THEN "excel.read" ELSE "word.read"]
=============================================================================
