----------------------------- MODULE MCFileTree -----------------------------
(***************************************************************************)
(* A small tree for FileTree: two clients, two inodes besides those that   *)
(* have a number, two accounts, and names that begin with one another.     *)
(***************************************************************************)
EXTENDS FileTree, TLC

CONSTANTS n1, n2, c1, c2, i1, i2

MCPrefix == {<<"h", "home">>}

MCPath == {<<"home">>, <<"..">>, <<"home", "h">>, <<"/", "h">>}

MCMode == {{<<"user", "r">>, <<"user", "w">>}}

(* Accounts, clients, and the inodes that have no number.                  *)
Interchangeable ==
    Permutations(AccName) \cup Permutations(Client)
        \cup Permutations(Inode \ {ROOT_INODE, PASSWD_INODE})
=============================================================================
