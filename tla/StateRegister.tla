--------------------------- MODULE StateRegister ---------------------------
(***************************************************************************)
(* What save_state and load_state promise (persistence.cpp:344-346): the   *)
(* file is one register.  A save replaces it by a whole state, or leaves   *)
(* it alone; a load returns what it holds, or says that it cannot.         *)
(***************************************************************************)
CONSTANTS Docs, Loadable(_), NoDoc, Spoilt

VARIABLES content,     \* NoDoc, the state of the last save, or Spoilt
          result       \* the answer of the last load

Init == content = NoDoc /\ result = [status |-> "none", doc |-> NoDoc]

Save == content' \in Docs /\ UNCHANGED result

Spoil == content # NoDoc /\ content' = Spoilt /\ UNCHANGED result

Answer ==
    CASE content = NoDoc -> [status |-> "not_found", doc |-> NoDoc]
      [] content \in Docs /\ Loadable(content) -> [status |-> "ok", doc |-> content]
      [] OTHER -> [status |-> "corrupt", doc |-> NoDoc]

Load == result' = Answer /\ UNCHANGED content

Spec == Init /\ [][Save \/ Spoil \/ Load]_<<content, result>>
=============================================================================
