--------------------------- MODULE MCXmlRpcServer ---------------------------
(* The instance of XmlRpcServer for TLC: one peer that may send anything    *)
(* next to peers that call a method.                                        *)
EXTENDS XmlRpcServer, TLC

CONSTANTS c1, c2, c3

OneWild == [c \in Conn |-> IF c = c1 THEN Requests \cup {"garbage"} ELSE {"method"}]
=============================================================================
