----------------------------- MODULE MCUpdater -----------------------------
(* Model-checking instance of Updater. *)
EXTENDS Updater

CONSTANTS t1, t2, exe, lib

TwoTasks   == {t1, t2}
TwoFiles   == {exe, lib}

\* Build 2 brings a new file; the archive of build 3 has another executable's name.
Archives == <<<<exe>>, <<lib, exe>>, <<lib>>>>

AllSettings == {[check |-> TRUE, auto |-> TRUE], [check |-> TRUE, auto |-> FALSE],
                [check |-> FALSE, auto |-> FALSE]}
=============================================================================
