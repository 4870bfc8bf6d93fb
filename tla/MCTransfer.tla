----------------------------- MODULE MCTransfer -----------------------------
(* Instances of Transfer for model checking. *)
EXTENDS Transfer, TLC

F(name, size, kind) == [name |-> name, size |-> size, kind |-> kind]

\* Two shares of one file; the account may hold another file of that name and
\* one whose name contains it.
MCFilesOf == [s1 |-> <<F("ep1", 1, "video"), F("doc", 1, "folder")>>,
              s2 |-> <<F("ep1", 1, "video")>>]
MCInside == {<<"ep1", "step1">>}
MCOld == {{}, {[id |-> 1, name |-> "ep1", size |-> 2, by |-> None, copy |-> 0],
               [id |-> 2, name |-> "step1", size |-> 1, by |-> None, copy |-> 0]}}

MCAction == (1 :> "d" @@ 2 :> "s")
MCWait == (1 :> FALSE @@ 2 :> TRUE)
MCShareOf == (1 :> "s1" @@ 2 :> "s2")
=============================================================================
