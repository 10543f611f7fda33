------------------------------ MODULE MCSession ------------------------------
(* Instances of Session for TLC.                                            *)
EXTENDS Session

Request(action, key) == [action |-> action, key |-> key]

MCRole == [user |-> "READ_WRITE", admin |-> "ADMIN", nobody |-> "NONE"]

Mixed == {Request("insert", "user"), Request("set_schema", "admin"), Request("exit", "user")}

MCSize == [r \in Requests |-> IF r.action = "set_schema" THEN 2 ELSE 1]
=============================================================================
