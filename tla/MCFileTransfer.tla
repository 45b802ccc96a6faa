--------------------------- MODULE MCFileTransfer ---------------------------
(***************************************************************************)
(* Constant values for model checking FileTransferSystem.                  *)
(***************************************************************************)
EXTENDS FileTransferSystem

(* Empty, a single piece that does not end, with bytes behind the image,   *)
(* with a second image behind the first.                                   *)
AllContents ==
  {<<>>, <<"body">>, <<"body", "eoi", "body">>, <<"eoi", "soi">>}

(* One good file, for the runs about liveness. *)
GoodContents == {<<"body", "eoi">>}

(* And one of a single piece. *)
ShortContents == {<<"eoi">>}

(* One id used again, with any contents; with wrong sizes, and given up at  *)
(* any moment; two ids; pauses; one id used a third time.                  *)
AllWorkloads ==
  {[ids |-> {1}, contents |-> AllContents, wrong |-> FALSE, hasty |-> FALSE,
    setups |-> 2, pauses |-> 0],
   [ids |-> {1}, contents |-> {<<"body", "eoi", "body">>}, wrong |-> TRUE,
    hasty |-> TRUE, setups |-> 2, pauses |-> 0],
   [ids |-> {1, 2}, contents |-> ShortContents, wrong |-> FALSE, hasty |-> FALSE,
    setups |-> 2, pauses |-> 0],
   [ids |-> {1}, contents |-> ShortContents, wrong |-> FALSE, hasty |-> TRUE,
    setups |-> 2, pauses |-> 1],
   [ids |-> {1}, contents |-> ShortContents, wrong |-> FALSE, hasty |-> FALSE,
    setups |-> 3, pauses |-> 0]}

OneFile ==
  {[ids |-> {1}, contents |-> GoodContents, wrong |-> FALSE, hasty |-> TRUE,
    setups |-> 1, pauses |-> 0]}
=============================================================================
