--------------------------- MODULE FileTreeProofs ---------------------------
(***************************************************************************)
(* For every number of clients, inodes, names and accounts: no two valid   *)
(* accounts share a name and a uid means one account until a format; and   *)
(* the directories are a tree, whatever commands run in whatever order.    *)
(*                                                                         *)
(* The proof about the tree needs to know what removed and lost            *)
(* directories hold, for clients still stand in them (TreeInv of           *)
(* FileTree): their names lead to lost inodes only, so nothing that is     *)
(* done there takes an inode that a name in the tree leads to.             *)
(***************************************************************************)
EXTENDS FileTree, FiniteSetTheorems, TLAPS

(* The entries of passwd (fs.h:acc_entry_t)                                *)
AccType == acc \in Seq([name : AccName, valid : BOOLEAN])

(* Which commands touch passwd, and how (fs.c:change_account,              *)
(* remove_account).                                                        *)
AccStep ==
    \/ acc' = <<>>
    \/ acc' = acc
    \/ \E n \in AccName :
          /\ ~\E k \in DOMAIN acc : Valid(k, n)
          /\ Len(acc) < MaxAccounts
          /\ acc' = Append(acc, [name |-> n, valid |-> TRUE])
    \/ \E k \in DOMAIN acc : acc' = [acc EXCEPT ![k].valid = FALSE]

(* Every step of the file system treats passwd in one of these ways        *)
(* (fs_operation_wrapper runs one command).                                *)
LEMMA StepsOfPasswd == [Next]_vars => AccStep
<1> SUFFICES ASSUME [Next]_vars PROVE AccStep
  OBVIOUS
<1>1. CASE UNCHANGED vars
  BY <1>1 DEF vars, accounts, AccStep
<1>2. CASE Format
  BY <1>2 DEF Format, AccStep
<1>3. CASE Restart
  BY <1>3 DEF Restart, AccStep
<1>4. ASSUME NEW c \in Client, Command(c) PROVE AccStep
  <2>1. ASSUME NEW q \in Query, NEW dir \in BOOLEAN, Make(c, q, dir)
        PROVE  acc' = acc
    BY <2>1 DEF Make, accounts
  <2>2. ASSUME NEW q \in Query, NEW dir \in BOOLEAN, MakeFails(c, q, dir)
        PROVE  acc' = acc
    BY <2>2 DEF MakeFails, accounts
  <2>3. ASSUME NEW q \in Query, NEW dir \in BOOLEAN, RemoveEntry(c, q, dir)
        PROVE  acc' = acc
    BY <2>3 DEF RemoveEntry, accounts
  <2>4. ASSUME NEW path \in Path, Cd(c, path) PROVE acc' = acc
    BY <2>4 DEF Cd, accounts
  <2>5. ASSUME NEW q \in Query, NEW mode \in Mode, Chmod(c, q, mode)
        PROVE  acc' = acc
    BY <2>5 DEF Chmod, accounts
  <2>6. ASSUME NEW n \in AccName, NewAccount(c, n) PROVE AccStep
    BY <2>6 DEF NewAccount, AccStep
  <2>7. ASSUME NEW n \in AccName, LoginAs(c, n) PROVE acc' = acc
    BY <2>7 DEF LoginAs
  <2>8. ASSUME NEW n \in AccName, RemoveAccount(c, n) PROVE AccStep
    BY <2>8 DEF RemoveAccount, AccStep
  <2>9. acc' = acc => AccStep
    BY DEF AccStep
  <2> QED
    BY <1>4, <2>1, <2>2, <2>3, <2>4, <2>5, <2>6, <2>7, <2>8, <2>9 DEF Command
<1> QED
  BY <1>1, <1>2, <1>3, <1>4 DEF Next

(* The invariant of passwd                                                 *)
AccInv == AccType /\ AccountsApart

(* The entries of passwd stay entries. *)
LEMMA AccTypeKept == AccType /\ AccStep => AccType'
<1> SUFFICES ASSUME AccType, AccStep PROVE AccType'
  OBVIOUS
<1> DEFINE S == [name : AccName, valid : BOOLEAN]
<1>1. acc \in Seq(S)
  BY DEF AccType
<1>2. CASE acc' = <<>> \/ acc' = acc
  <2> HIDE DEF S
  <2>1. <<>> \in Seq(S)
    OBVIOUS
  <2>2. acc' \in Seq(S)
    BY <1>1, <1>2, <2>1, Zenon
  <2> QED
    BY <2>2 DEF AccType, S
<1>3. ASSUME NEW n \in AccName, acc' = Append(acc, [name |-> n, valid |-> TRUE])
      PROVE  AccType'
  BY <1>1, <1>3 DEF AccType
<1>4. ASSUME NEW i \in DOMAIN acc, acc' = [acc EXCEPT ![i].valid = FALSE]
      PROVE  AccType'
  <2> DEFINE e == [acc[i] EXCEPT !.valid = FALSE]
  <2> HIDE DEF S
  <2>1. acc[i] \in S /\ i \in 1 .. Len(acc)
    BY <1>1, <1>4
  <2>2. e \in S
    BY <2>1 DEF S
  <2> HIDE DEF e
  <2>3. [acc EXCEPT ![i] = e] \in Seq(S)
    BY <1>1, <2>1, <2>2
  <2> QED
    BY <1>4, <2>3 DEF S, e, AccType
<1> QED
  BY <1>2, <1>3, <1>4 DEF AccStep

(* A name that is free is given to one account; removing one gives none    *)
(* (fs.c:change_account, remove_account).                                  *)
LEMMA AccInvKept == AccInv /\ AccStep => AccInv'
<1> SUFFICES ASSUME AccInv, AccStep PROVE AccountsApart'
  BY AccTypeKept DEF AccInv
<1> USE DEF AccInv, AccType, AccountsApart
<1>1. CASE acc' = <<>>
  BY <1>1
<1>2. CASE acc' = acc
  BY <1>2
<1>3. ASSUME NEW n \in AccName, ~\E k \in DOMAIN acc : Valid(k, n),
             acc' = Append(acc, [name |-> n, valid |-> TRUE])
      PROVE  AccountsApart'
  <2>1. /\ DOMAIN acc' = 1 .. Len(acc) + 1 /\ DOMAIN acc = 1 .. Len(acc)
        /\ \A k \in 1 .. Len(acc) : acc'[k] = acc[k]
        /\ acc'[Len(acc) + 1] = [name |-> n, valid |-> TRUE]
        /\ Len(acc) \in Nat
    BY <1>3
  <2>2. ASSUME NEW j \in DOMAIN acc', NEW k \in DOMAIN acc',
               acc'[j].valid, acc'[k].valid, acc'[j].name = acc'[k].name, j # k
        PROVE  FALSE
    <3>1. CASE j = Len(acc) + 1 \/ k = Len(acc) + 1
      BY <1>3, <2>1, <2>2, <3>1 DEF Valid
    <3>2. CASE j \in DOMAIN acc /\ k \in DOMAIN acc
      BY <2>1, <2>2, <3>2
    <3> QED
      BY <2>1, <3>1, <3>2
  <2> QED
    BY <2>2
<1>4. ASSUME NEW i \in DOMAIN acc, acc' = [acc EXCEPT ![i].valid = FALSE]
      PROVE  AccountsApart'
  <2>1. /\ DOMAIN acc' = DOMAIN acc
        /\ \A k \in DOMAIN acc : /\ acc'[k].name = acc[k].name
                                 /\ acc'[k].valid => acc[k].valid
    BY <1>4
  <2>2. ASSUME NEW j \in DOMAIN acc', NEW k \in DOMAIN acc',
               acc'[j].valid, acc'[k].valid, acc'[j].name = acc'[k].name
        PROVE  j = k
    BY <2>1, <2>2
  <2> QED
    BY <2>2
<1> QED
  BY <1>1, <1>2, <1>3, <1>4 DEF AccStep

(* No two valid accounts have one name (fs.c:change_account).              *)
THEOREM AccountsStayApart == Spec => []AccountsApart
<1>1. Init => AccInv
  BY DEF Init, AccInv, AccType, AccountsApart
<1>2. AccInv /\ [Next]_vars => AccInv'
  BY StepsOfPasswd, AccInvKept
<1>3. AccInv => AccountsApart
  BY DEF AccInv
<1> QED
  BY <1>1, <1>2, <1>3, PTL DEF Spec

(* The account behind a uid stays the same until a format                  *)
(* (fs.c:change_account, remove_account).                                  *)
THEOREM UidsHaveOneOwner == Spec => UidsKeepOwner
<1> DEFINE Kept == \A c \in Client :
                      uid'[c] = uid[c] /\ Owner(c) # NoName /\ acc' # <<>>
                        => Owner(c)' = Owner(c)
<1>1. Init => AccInv
  BY DEF Init, AccInv, AccType, AccountsApart
<1>2. AccInv /\ [Next]_vars => AccInv'
  BY StepsOfPasswd, AccInvKept
<1>3. AccInv /\ [Next]_vars => [Kept]_vars
  <2> SUFFICES ASSUME AccInv, AccStep, NEW c \in Client, uid'[c] = uid[c],
                      Owner(c) # NoName, acc' # <<>>
               PROVE  Owner(c)' = Owner(c)
    BY StepsOfPasswd DEF Kept
  <2>1. uid[c] + 1 \in DOMAIN acc /\ acc \in Seq([name : AccName, valid : BOOLEAN])
    BY DEF Owner, AccInv, AccType
  <2> DEFINE u == uid[c] + 1
  <2> SUFFICES u \in DOMAIN acc' /\ acc'[u].name = acc[u].name
    BY <2>1 DEF Owner
  <2> HIDE DEF u
  <2>2. u \in DOMAIN acc
    BY <2>1 DEF u
  <2>3. CASE acc' = acc
    BY <2>2, <2>3
  <2>4. ASSUME NEW n \in AccName, acc' = Append(acc, [name |-> n, valid |-> TRUE])
        PROVE  u \in DOMAIN acc' /\ acc'[u].name = acc[u].name
    BY <2>1, <2>2, <2>4
  <2>5. ASSUME NEW k \in DOMAIN acc, acc' = [acc EXCEPT ![k].valid = FALSE]
        PROVE  u \in DOMAIN acc' /\ acc'[u].name = acc[u].name
    BY <2>1, <2>2, <2>5
  <2> QED
    BY <2>3, <2>4, <2>5 DEF AccStep
<1> HIDE DEF Kept
<1>4. Spec => [][Kept]_vars
  BY <1>1, <1>2, <1>3, PTL DEF Spec
<1> QED
  BY <1>4 DEF Kept, UidsKeepOwner

-----------------------------------------------------------------------------
(* What the commands do to the inode table.                                *)

(* An inode of the table, field by field (inodes.h:inode_t). *)
LEMMA NodeFields ==
    ASSUME TypeOK, NEW i \in Inode
    PROVE  /\ node[i] \in Node /\ node[i].entries \in Seq(Entry)
           /\ node[i].dir \in BOOLEAN /\ node[i].mode \in Permissions
           /\ node[i].uid \in 0 .. MaxAccounts - 1
<1>1. node[i] \in Node
  BY DEF TypeOK
<1> QED
  BY <1>1 DEF Node

(* An entry of a directory (fs.h:entry_t). *)
LEMMA EntryFields ==
    ASSUME TypeOK, NEW d \in Inode, NEW k \in DOMAIN node[d].entries
    PROVE  /\ k \in 1 .. Len(node[d].entries) /\ Len(node[d].entries) \in Nat
           /\ node[d].entries[k] \in Entry
           /\ node[d].entries[k].name \in Name /\ node[d].entries[k].id \in Inode
<1> DEFINE es == node[d].entries
<1>1. es \in Seq(Entry)
  BY NodeFields
<1> HIDE DEF es
<1>2. k \in DOMAIN es => /\ k \in 1 .. Len(es) /\ Len(es) \in Nat
                        /\ es[k] \in Entry
  BY <1>1
<1> QED
  BY <1>2 DEF es, Entry

(* Entries are saved to an inode without its other fields.                 *)
LEMMA OnlyEntries ==
    ASSUME NEW n \in Node, NEW es \in Seq(Entry)
    PROVE  /\ [n EXCEPT !.entries = es] \in Node
           /\ [n EXCEPT !.entries = es].entries = es
           /\ [n EXCEPT !.entries = es].dir = n.dir
           /\ [n EXCEPT !.entries = es].mode = n.mode
<1> DEFINE m == [n EXCEPT !.entries = es]
<1>1. m \in Node
  BY DEF Node
<1>2. m.entries = es
  BY DEF Node
<1>3. m.dir = n.dir
  BY Zenon DEF Node
<1>4. m.mode = n.mode
  BY DEF Node
<1> QED
  BY <1>1, <1>2, <1>3, <1>4

(* A new inode is blank, or a directory of two dots (inodes.c:create_inode, *)
(* fs.c:make_dir).                                                         *)
LEMMA NewNodeTyped ==
    ASSUME TypeOK, NEW c \in Client, NEW i \in Inode, NEW dir \in BOOLEAN
    PROVE  /\ NewNode(c, i, dir) \in Node
           /\ NewNode(c, i, dir).dir = dir
           /\ NewNode(c, i, dir).entries =
                IF dir THEN <<[name |-> "..", id |-> cwd[c]], [name |-> ".", id |-> i]>>
                       ELSE <<>>
<1>1. uid[c] \in 0 .. MaxAccounts - 1 /\ cwd[c] \in Inode
  BY DEF TypeOK
<1>2. DefaultRights \in Permissions
  BY DEF DefaultRights, Permissions, Right
<1>3. {".", ".."} \subseteq Name
  BY TreeAssumption
<1>4. CASE dir = TRUE
  <2> DEFINE up == [name |-> "..", id |-> cwd[c]]
             self == [name |-> ".", id |-> i]
  <2>1. up \in Entry /\ self \in Entry
    BY <1>1, <1>3 DEF Entry
  <2>2. NewNode(c, i, dir) = [dir |-> TRUE, mode |-> DefaultRights, uid |-> uid[c],
                              entries |-> <<up, self>>]
    BY <1>4 DEF NewNode, Directory
  <2> HIDE DEF up, self
  <2>3. <<up, self>> \in Seq(Entry)
    BY <2>1
  <2>4. NewNode(c, i, dir) \in Node
    BY <1>1, <1>2, <2>2, <2>3 DEF Node
  <2> QED
    BY <1>4, <2>2, <2>4 DEF up, self
<1>5. CASE dir = FALSE
  <2>1. NewNode(c, i, dir) = [dir |-> FALSE, mode |-> DefaultRights, uid |-> uid[c],
                              entries |-> <<>>]
    BY <1>5 DEF NewNode, Blank
  <2>2. <<>> \in Seq(Entry)
    OBVIOUS
  <2>3. NewNode(c, i, dir) \in Node
    BY <1>1, <1>2, <2>1, <2>2 DEF Node
  <2>4. NewNode(c, i, dir).dir = FALSE /\ NewNode(c, i, dir).entries = <<>>
    BY <2>1
  <2> QED
    BY <1>5, <2>3, <2>4
<1> QED
  BY <1>4, <1>5

(* A command that leaves the entries alone saves what it has loaded        *)
(* (fs_operation_wrapper).                                                 *)
LEMMA SavedAsIs ==
    ASSUME TypeOK, NEW c \in Client, SaveAsIs(c)
    PROVE  node' = node
<1>1. cwd[c] \in Inode /\ node \in [Inode -> Node]
  BY DEF TypeOK
<1>2. node[cwd[c]] \in Node
  BY <1>1
<1>3. [node[cwd[c]] EXCEPT !.entries = node[cwd[c]].entries] = node[cwd[c]]
  BY <1>2 DEF Node
<1>4. node' = [node EXCEPT ![cwd[c]] =
                  [node[cwd[c]] EXCEPT !.entries = node[cwd[c]].entries]]
  BY DEF SaveAsIs, Save
<1> QED
  BY <1>1, <1>3, <1>4

(* mk and mkdir: one new inode, and one new entry that leads to it         *)
(* (fs.c:make_file, make_dir).                                             *)
Made(c, q, dir, given, i) ==
    /\ given \in Name
    /\ q \notin Longest => given = q
    /\ node' \in [Inode -> Node]
    /\ live' = live \cup {i}
    /\ unset' = IF q \in Longest THEN unset \cup {i} ELSE unset
    /\ lost' = IF cwd[c] \in live \ lost THEN lost ELSE lost \cup {i}
    /\ node'[cwd[c]].entries =
          Append(node[cwd[c]].entries, [name |-> given, id |-> i])
    /\ node'[i].dir = dir
    /\ i # cwd[c] => node'[i].entries =
          IF dir THEN <<[name |-> "..", id |-> cwd[c]], [name |-> ".", id |-> i]>>
                 ELSE <<>>
    /\ \A x \in Inode : x # i => /\ node'[x].dir = node[x].dir
                                 /\ node'[x].mode = node[x].mode
    /\ \A x \in Inode : x # i /\ x # cwd[c] =>
          node'[x].entries = node[x].entries

(* That is what they do. *)
LEMMA MakeEffect ==
    ASSUME TypeOK, NEW c \in Client, NEW q \in Query, NEW dir \in BOOLEAN,
           Make(c, q, dir)
    PROVE  \E i \in Inode \ live, given \in Name : Made(c, q, dir, given, i)
<1>0. PICK i \in Inode \ live, given \in Stored(q) :
           /\ live' = live \cup {i}
           /\ lost' = IF cwd[c] \in live \ lost THEN lost ELSE lost \cup {i}
           /\ unset' = IF q \in Longest THEN unset \cup {i} ELSE unset
           /\ Save([node EXCEPT ![i] = NewNode(c, i, dir)], cwd[c],
                   Append(node[cwd[c]].entries, [name |-> given, id |-> i]))
  BY DEF Make
<1>12. given \in Name /\ (q \notin Longest => given = q)
  BY TreeAssumption DEF Stored
<1> PICK d \in Inode : d = cwd[c]
  BY DEF TypeOK
<1> DEFINE new == NewNode(c, i, dir)
           es == Append(node[d].entries, [name |-> given, id |-> i])
           table == [node EXCEPT ![i] = new]
<1>1. d \in Inode /\ node \in [Inode -> Node]
  BY DEF TypeOK
<1>2. new \in Node /\ new.dir = dir
      /\ new.entries =
           IF dir THEN <<[name |-> "..", id |-> d], [name |-> ".", id |-> i]>>
                  ELSE <<>>
  BY NewNodeTyped
<1>3. es \in Seq(Entry)
  <2>1. [name |-> given, id |-> i] \in Entry
    BY <1>12 DEF Entry
  <2> QED
    BY <1>1, <2>1, NodeFields
<1>4. node' = [table EXCEPT ![d].entries = es]
  BY <1>0 DEF Save
<1> HIDE DEF new, es
<1>5. table \in [Inode -> Node] /\ table[i] = new
      /\ \A x \in Inode : x # i => table[x] = node[x]
  BY <1>1, <1>2
<1> HIDE DEF table
<1>6. /\ node'[d] = [table[d] EXCEPT !.entries = es]
      /\ \A x \in Inode : x # d => node'[x] = table[x]
  BY <1>1, <1>4, <1>5
<1>7. /\ node'[d] \in Node /\ node'[d].entries = es
      /\ node'[d].dir = table[d].dir /\ node'[d].mode = table[d].mode
  BY <1>1, <1>3, <1>5, <1>6, OnlyEntries
<1>8. node' \in [Inode -> Node]
  BY <1>1, <1>4, <1>5, <1>6, <1>7
<1>9. node'[i].dir = dir
  BY <1>2, <1>5, <1>6, <1>7
<1>10. /\ node'[d].entries = Append(node[d].entries, [name |-> given, id |-> i])
       /\ i # d => node'[i].entries =
            IF dir THEN <<[name |-> "..", id |-> d], [name |-> ".", id |-> i]>>
                   ELSE <<>>
       /\ \A x \in Inode : x # i => /\ node'[x].dir = node[x].dir
                                    /\ node'[x].mode = node[x].mode
       /\ \A x \in Inode : x # i /\ x # d => node'[x].entries = node[x].entries
  BY <1>2, <1>5, <1>6, <1>7 DEF es
<1>11. Made(c, q, dir, given, i)
  BY <1>0, <1>8, <1>9, <1>10, <1>12 DEF Made
<1> QED
  BY <1>11, <1>12

(* mk or mkdir that fails behind create_inode: the inode stays.            *)
LEMMA MakeFailsEffect ==
    ASSUME TypeOK, NEW c \in Client, NEW dir \in BOOLEAN, NEW i \in Inode,
           node' = [node EXCEPT ![i] = NewNode(c, i, dir)]
    PROVE  /\ node' \in [Inode -> Node]
           /\ node'[i].entries =
                 IF dir THEN <<[name |-> "..", id |-> cwd[c]], [name |-> ".", id |-> i]>>
                        ELSE <<>>
           /\ \A x \in Inode : x # i => node'[x] = node[x]
<1>1. node \in [Inode -> Node]
  BY DEF TypeOK
<1> QED
  BY <1>1, NewNodeTyped

(* rm and rmdir: the entry goes, and the entries of what it led to.        *)
LEMMA RemoveEffect ==
    ASSUME TypeOK, NEW d \in Inode, NEW i \in Inode,
           NEW k \in DOMAIN node[d].entries,
           Save([node EXCEPT ![i].entries = <<>>], d, SwapOut(node[d].entries, k))
    PROVE  /\ node' \in [Inode -> Node]
           /\ node'[d].entries = SwapOut(node[d].entries, k)
           /\ i # d => node'[i].entries = <<>>
           /\ \A x \in Inode : /\ node'[x].dir = node[x].dir
                               /\ node'[x].mode = node[x].mode
           /\ \A x \in Inode : x # i /\ x # d => node'[x].entries = node[x].entries
<1> DEFINE es == SwapOut(node[d].entries, k)
           table == [node EXCEPT ![i].entries = <<>>]
<1>1. node \in [Inode -> Node]
  BY DEF TypeOK
<1>2. es \in Seq(Entry)
  <2> DEFINE old == node[d].entries
  <2>1. old \in Seq(Entry)
    BY NodeFields
  <2> HIDE DEF old
  <2>2. SwapOut(old, k) \in Seq(Entry)
    <3>1. Len(old) \in Nat /\ old \in [1 .. Len(old) -> Entry]
      BY <2>1
    <3>2. k \in 1 .. Len(old)
      BY <3>1 DEF old
    <3>3. Len(old) - 1 \in Nat
      BY <3>1, <3>2
    <3>4. SwapOut(old, k) \in [1 .. Len(old) - 1 -> Entry]
      BY <3>1, <3>2 DEF SwapOut
    <3> QED
      BY <3>3, <3>4
  <2> QED
    BY <2>2 DEF old
<1>3. node' = [table EXCEPT ![d].entries = es]
  BY DEF Save
<1> HIDE DEF es
<1>4. /\ table[i] = [node[i] EXCEPT !.entries = <<>>]
      /\ \A x \in Inode : x # i => table[x] = node[x]
  BY <1>1
<1>5. /\ table[i] \in Node /\ table[i].entries = <<>>
      /\ table[i].dir = node[i].dir /\ table[i].mode = node[i].mode
  <2> DEFINE none == <<>>
  <2>1. none \in Seq(Entry) /\ node[i] \in Node
    BY <1>1
  <2>2. table[i] = [node[i] EXCEPT !.entries = none]
    BY <1>4
  <2> HIDE DEF table, none
  <2>3. /\ table[i] \in Node /\ table[i].entries = none
        /\ table[i].dir = node[i].dir /\ table[i].mode = node[i].mode
    BY <2>1, <2>2, OnlyEntries
  <2> QED
    BY <2>3 DEF none
<1>6. table \in [Inode -> Node]
  BY <1>1, <1>4, <1>5
<1> HIDE DEF table
<1>7. /\ node'[d] = [table[d] EXCEPT !.entries = es]
      /\ \A x \in Inode : x # d => node'[x] = table[x]
  BY <1>3, <1>6
<1>8. /\ node'[d] \in Node /\ node'[d].entries = es
      /\ node'[d].dir = table[d].dir /\ node'[d].mode = table[d].mode
  BY <1>2, <1>6, <1>7, OnlyEntries
<1>9. node' \in [Inode -> Node]
  BY <1>3, <1>6, <1>7, <1>8
<1>10. \A x \in Inode : /\ table[x].dir = node[x].dir
                        /\ table[x].mode = node[x].mode
  BY <1>4, <1>5
<1> QED
  BY <1>4, <1>5, <1>7, <1>8, <1>9, <1>10 DEF es

(* chmod: the mode of one inode.                                           *)
LEMMA ChmodEffect ==
    ASSUME TypeOK, NEW d \in Inode, NEW i \in Inode, NEW mode \in Mode,
           Save([node EXCEPT ![i].mode = mode], d, node[d].entries)
    PROVE  /\ node' \in [Inode -> Node]
           /\ \A x \in Inode : /\ node'[x].dir = node[x].dir
                               /\ node'[x].entries = node[x].entries
                               /\ x # i => node'[x].mode = node[x].mode
<1> DEFINE es == node[d].entries
           table == [node EXCEPT ![i].mode = mode]
<1>1. node \in [Inode -> Node] /\ mode \in Permissions
  BY RequestAssumption DEF TypeOK
<1>2. es \in Seq(Entry)
  BY NodeFields
<1>3. node' = [table EXCEPT ![d].entries = es]
  BY DEF Save
<1>4. /\ table[i] = [node[i] EXCEPT !.mode = mode]
      /\ \A x \in Inode : x # i => table[x] = node[x]
  BY <1>1
<1>5. /\ table[i] \in Node /\ table[i].entries = node[i].entries
      /\ table[i].dir = node[i].dir
  BY <1>1, <1>4 DEF Node
<1>6. table \in [Inode -> Node] /\ es = table[d].entries
  BY <1>1, <1>4, <1>5
<1> HIDE DEF table, es
<1>7. /\ node'[d] = [table[d] EXCEPT !.entries = es]
      /\ \A x \in Inode : x # d => node'[x] = table[x]
  BY <1>3, <1>6
<1>8. node'[d] = table[d]
  <2>1. table[d] \in Node
    BY <1>6
  <2> QED
    BY <1>6, <1>7, <2>1 DEF Node
<1>9. node' = table
  BY <1>3, <1>6, <1>7, <1>8
<1> QED
  BY <1>4, <1>5, <1>6, <1>9

(* A formatted disk: the root, passwd and home (fs.c:fs_format).           *)
Fresh(T, home) ==
    /\ T \in [Inode -> Node]
    /\ T[ROOT_INODE].dir = TRUE /\ T[ROOT_INODE].mode = AllRights
    /\ Len(T[ROOT_INODE].entries) = 4
    /\ T[ROOT_INODE].entries[1] = [name |-> "..", id |-> ROOT_INODE]
    /\ T[ROOT_INODE].entries[2] = [name |-> ".", id |-> ROOT_INODE]
    /\ T[ROOT_INODE].entries[3] = [name |-> "home", id |-> home]
    /\ T[ROOT_INODE].entries[4] = [name |-> "passwd", id |-> PASSWD_INODE]
    /\ T[home].dir = TRUE
    /\ T[home].entries =
         <<[name |-> "..", id |-> ROOT_INODE], [name |-> ".", id |-> home]>>
    /\ \A x \in Inode \ {ROOT_INODE, home} : T[x].dir = FALSE /\ T[x].entries = <<>>

(* That is what fs_format writes. *)
LEMMA FormatEffect ==
    ASSUME NEW home \in Inode \ {ROOT_INODE, PASSWD_INODE}, NEW T,
           T = FormattedTree(home)
    PROVE  Fresh(T, home)
<1> DEFINE dd == [name |-> "..", id |-> ROOT_INODE]
           d == [name |-> ".", id |-> ROOT_INODE]
           h == [name |-> "home", id |-> home]
           p == [name |-> "passwd", id |-> PASSWD_INODE]
           dh == [name |-> ".", id |-> home]
           es == <<dd, d>> \o <<h, p>>
<1>1. /\ ROOT_INODE \in Inode /\ PASSWD_INODE \in Inode /\ home \in Inode
      /\ ROOT_INODE # PASSWD_INODE /\ home # ROOT_INODE /\ home # PASSWD_INODE
      /\ "." \in Name /\ ".." \in Name /\ "home" \in Name /\ "passwd" \in Name
      /\ MaxAccounts \in Nat \ {0}
  BY TreeAssumption
<1>2. dd \in Entry /\ d \in Entry /\ h \in Entry /\ p \in Entry /\ dh \in Entry
  BY <1>1 DEF Entry
<1>3. 0 \in 0 .. MaxAccounts - 1
  BY <1>1
<1>4. AllRights \in Permissions /\ DefaultRights \in Permissions /\ {} \in Permissions
  BY DEF AllRights, DefaultRights, Permissions, Right
<1>5. T[ROOT_INODE] = [dir |-> TRUE, mode |-> AllRights, uid |-> 0,
                       entries |-> es]
  <2>1. T[ROOT_INODE] = [Directory(ROOT_INODE, ROOT_INODE, AllRights, 0)
                            EXCEPT !.entries = @ \o <<h, p>>]
    BY <1>1 DEF FormattedTree
  <2> QED
    BY <2>1 DEF Directory
<1>6. T[home] = [dir |-> TRUE, mode |-> AllRights, uid |-> 0, entries |-> <<dd, dh>>]
  BY <1>1 DEF FormattedTree, Directory
<1>7. /\ \A x \in Inode \ {ROOT_INODE, PASSWD_INODE, home} :
            T[x] = [dir |-> FALSE, mode |-> {}, uid |-> 0, entries |-> <<>>]
      /\ T[PASSWD_INODE] = [dir |-> FALSE, mode |-> DefaultRights, uid |-> 0,
                            entries |-> <<>>]
  BY <1>1 DEF FormattedTree, Blank
<1> HIDE DEF dd, d, h, p, dh
<1>8. /\ es \in Seq(Entry) /\ Len(es) = 4
      /\ es[1] = dd /\ es[2] = d /\ es[3] = h /\ es[4] = p
      /\ <<dd, dh>> \in Seq(Entry) /\ <<>> \in Seq(Entry)
  BY <1>2
<1> HIDE DEF es
<1>9. /\ T[ROOT_INODE].dir = TRUE /\ T[ROOT_INODE].mode = AllRights
      /\ T[ROOT_INODE].entries = es
      /\ T[home].dir = TRUE /\ T[home].entries = <<dd, dh>>
  BY <1>5, <1>6
<1>10. \A x \in Inode \ {ROOT_INODE, home} : T[x].dir = FALSE /\ T[x].entries = <<>>
  BY <1>7
<1>11. T \in [Inode -> Node]
  <2>1. T[ROOT_INODE] \in Node
    BY <1>3, <1>4, <1>5, <1>8 DEF Node
  <2>2. T[home] \in Node
    BY <1>3, <1>4, <1>6, <1>8 DEF Node
  <2>3. \A x \in Inode \ {ROOT_INODE, home} : T[x] \in Node
    <3> DEFINE none == <<>>
    <3>1. none \in Seq(Entry)
      BY <1>8
    <3>2. \A m \in Permissions :
             [dir |-> FALSE, mode |-> m, uid |-> 0, entries |-> none] \in Node
      <4> HIDE DEF none
      <4> QED
        BY <1>3, <3>1 DEF Node
    <3> QED
      BY <1>4, <1>7, <3>2
  <2>4. T = [x \in Inode |-> T[x]]
    BY DEF FormattedTree
  <2> QED
    BY <2>1, <2>2, <2>3, <2>4
<1> QED
  BY <1>8, <1>9, <1>10, <1>11 DEF dd, d, h, p, dh, Fresh

-----------------------------------------------------------------------------
(* Types.                                                                  *)

LEMMA InitTyped == Init => TypeOK
<1> SUFFICES ASSUME Init
             PROVE  TypeOK
  OBVIOUS
<1>1. PICK home \in Inode \ {ROOT_INODE, PASSWD_INODE} :
            live = {ROOT_INODE, PASSWD_INODE, home} /\ node = FormattedTree(home)
  BY DEF Init
<1>2. node \in [Inode -> Node]
  BY <1>1, FormatEffect DEF Fresh
<1>3. 0 \in 0 .. MaxAccounts - 1 /\ 0 <= MaxAccounts
  BY TreeAssumption
<1>4. <<>> \in Seq([name : AccName, valid : BOOLEAN]) /\ Len(<<>>) = 0
  OBVIOUS
<1> QED
  BY <1>1, <1>2, <1>3, <1>4, TreeAssumption DEF Init, TypeOK

(* The accounts that are added are counted (fs.c:change_account).          *)
LEMMA AccountsTyped ==
    ASSUME TypeOK, [Next]_vars
    PROVE  /\ acc' \in Seq([name : AccName, valid : BOOLEAN])
           /\ Len(acc') <= MaxAccounts
<1> DEFINE A == [name : AccName, valid : BOOLEAN]
<1>1. acc \in Seq(A) /\ Len(acc) <= MaxAccounts /\ MaxAccounts \in Nat
  BY TreeAssumption DEF TypeOK
<1>2. AccType' /\ AccStep
  <2>1. AccType
    BY <1>1 DEF AccType
  <2> QED
    BY <2>1, StepsOfPasswd, AccTypeKept
<1>3. Len(acc') <= MaxAccounts
  <2>1. CASE acc' = <<>> \/ acc' = acc
    BY <1>1, <2>1
  <2>2. CASE \E k \in DOMAIN acc : acc' = [acc EXCEPT ![k].valid = FALSE]
    <3>1. Len(acc') = Len(acc)
      BY <1>1, <2>2
    <3> QED
      BY <1>1, <3>1
  <2>3. ASSUME Len(acc) < MaxAccounts, NEW n \in AccName,
               acc' = Append(acc, [name |-> n, valid |-> TRUE])
        PROVE  Len(acc') <= MaxAccounts
    <3>1. Len(acc') = Len(acc) + 1 /\ Len(acc) \in Nat
      BY <1>1, <2>3
    <3> QED
      BY <1>1, <2>3, <3>1
  <2> QED
    BY <2>1, <2>2, <2>3, StepsOfPasswd DEF AccStep
<1> QED
  BY <1>2, <1>3 DEF AccType

(* Every step keeps the types of the tree and of the contexts.             *)
LEMMA NextTyped ==
    ASSUME TypeOK, [Next]_vars
    PROVE  TypeOK'
<1>1. /\ live \subseteq Inode /\ lost \subseteq live /\ unset \subseteq live
      /\ node \in [Inode -> Node]
      /\ cwd \in [Client -> Inode] /\ uid \in [Client -> 0 .. MaxAccounts - 1]
  BY DEF TypeOK
<1> DEFINE Typed == /\ live' \subseteq Inode /\ lost' \subseteq live'
                    /\ unset' \subseteq live'
                    /\ node' \in [Inode -> Node]
                    /\ cwd' \in [Client -> Inode]
                    /\ uid' \in [Client -> 0 .. MaxAccounts - 1]
<1> SUFFICES Typed
  BY AccountsTyped DEF TypeOK
<1>2. CASE UNCHANGED vars
  BY <1>1, <1>2 DEF vars, tree, accounts
<1>3. CASE Format
  <2>1. PICK home \in Inode \ {ROOT_INODE, PASSWD_INODE} :
              live' = {ROOT_INODE, PASSWD_INODE, home} /\ node' = FormattedTree(home)
    BY <1>3 DEF Format
  <2>2. node' \in [Inode -> Node]
    BY <2>1, FormatEffect DEF Fresh
  <2> QED
    BY <1>1, <1>3, <2>1, <2>2, TreeAssumption DEF Format
<1>4. CASE Restart
  <2>1. 0 \in 0 .. MaxAccounts - 1
    BY TreeAssumption
  <2> QED
    BY <1>1, <1>4, <2>1, TreeAssumption DEF Restart, tree
<1>5. ASSUME NEW c \in Client, NEW q \in Query, NEW dir \in BOOLEAN, Make(c, q, dir)
      PROVE  Typed
  <2>1. PICK i \in Inode \ live, given \in Name : Made(c, q, dir, given, i)
    BY <1>5, MakeEffect, Zenon
  <2>2. /\ live' = live \cup {i} /\ lost' \subseteq lost \cup {i}
        /\ unset' \subseteq unset \cup {i}
        /\ node' \in [Inode -> Node]
    BY <2>1 DEF Made
  <2> QED
    BY <1>1, <1>5, <2>2 DEF Make, accounts
<1>6. ASSUME NEW c \in Client, NEW q \in Query, NEW dir \in BOOLEAN, MakeFails(c, q, dir)
      PROVE  Typed
  <2>1. PICK i \in Inode \ live :
           /\ live' = live \cup {i} /\ lost' = lost \cup {i}
           /\ node' = [node EXCEPT ![i] = NewNode(c, i, dir)]
    BY <1>6 DEF MakeFails
  <2>2. node' \in [Inode -> Node]
    BY <2>1, MakeFailsEffect
  <2> QED
    BY <1>1, <1>6, <2>1, <2>2 DEF MakeFails, accounts
<1>7. ASSUME NEW c \in Client, NEW q \in Query, NEW dir \in BOOLEAN, RemoveEntry(c, q, dir)
      PROVE  Typed
  <2>1. PICK k \in DOMAIN node[cwd[c]].entries :
           LET i == node[cwd[c]].entries[k].id IN
           /\ live' = live \ {i} /\ lost' = lost \ {i} /\ unset' = unset \ {i}
           /\ Save([node EXCEPT ![i].entries = <<>>], cwd[c],
                   SwapOut(node[cwd[c]].entries, k))
    BY <1>7 DEF RemoveEntry
  <2>2. node[cwd[c]].entries[k].id \in Inode
    BY <1>1, EntryFields
  <2>3. node' \in [Inode -> Node]
    BY <1>1, <2>1, <2>2, RemoveEffect
  <2> QED
    BY <1>1, <1>7, <2>1, <2>3 DEF RemoveEntry, accounts
<1>8. ASSUME NEW c \in Client, NEW path \in Path, Cd(c, path)
      PROVE  Typed
  <2>1. node' = node
    BY <1>8, SavedAsIs DEF Cd
  <2>2. PICK n \in 0 .. Len(path) : \E way \in Ways(c, path, n) :
              cwd' = [cwd EXCEPT ![c] = way[n]]
    BY <1>8 DEF Cd
  <2>3. PICK way \in [0 .. n -> Inode] : cwd' = [cwd EXCEPT ![c] = way[n]]
    BY <2>2 DEF Ways
  <2>4. way[n] \in Inode
    BY <2>2, <2>3
  <2> QED
    BY <1>1, <1>8, <2>1, <2>3, <2>4 DEF Cd, accounts
<1>9. ASSUME NEW c \in Client, NEW q \in Query, NEW mode \in Mode, Chmod(c, q, mode)
      PROVE  Typed
  <2>1. PICK k \in DOMAIN node[cwd[c]].entries :
           LET i == node[cwd[c]].entries[k].id IN
           Save([node EXCEPT ![i].mode = mode], cwd[c], node[cwd[c]].entries)
    BY <1>9 DEF Chmod
  <2>2. node[cwd[c]].entries[k].id \in Inode
    BY <1>1, EntryFields
  <2>3. node' \in [Inode -> Node]
    BY <1>1, <2>1, <2>2, ChmodEffect
  <2> QED
    BY <1>1, <1>9, <2>3 DEF Chmod, accounts
<1>10. ASSUME NEW c \in Client, NEW n \in AccName,
              NewAccount(c, n) \/ RemoveAccount(c, n)
       PROVE  Typed
  <2>1. node' = node
    BY <1>10, SavedAsIs DEF NewAccount, RemoveAccount
  <2> QED
    BY <1>1, <1>10, <2>1 DEF NewAccount, RemoveAccount
<1>11. ASSUME NEW c \in Client, NEW n \in AccName, LoginAs(c, n)
       PROVE  Typed
  <2>1. node' = node
    BY <1>11, SavedAsIs DEF LoginAs
  <2>2. PICK k \in DOMAIN acc : uid' = [uid EXCEPT ![c] = k - 1]
    BY <1>11 DEF LoginAs
  <2>3. k \in 1 .. Len(acc) /\ Len(acc) \in Nat /\ Len(acc) <= MaxAccounts
        /\ MaxAccounts \in Nat
    BY TreeAssumption DEF TypeOK
  <2>4. k - 1 \in 0 .. MaxAccounts - 1
    BY <2>3
  <2> QED
    BY <1>1, <1>11, <2>1, <2>2, <2>4 DEF LoginAs
<1> QED
  BY <1>2, <1>3, <1>4, <1>5, <1>6, <1>7, <1>8, <1>9, <1>10, <1>11
  DEF Next, Command

(* The table, the contexts and the accounts stay what fs.h says they are,  *)
(* for every number of clients, inodes and names.                          *)
THEOREM TreeTypeCorrect == Spec => []TypeOK
<1>1. TypeOK /\ [Next]_vars => TypeOK'
  BY NextTyped
<1> QED
  BY <1>1, InitTyped, PTL DEF Spec

-----------------------------------------------------------------------------
(* The tree is one.                                                        *)

(* A directory of the tree begins with its two dots (fs.c:make_dir).       *)
LEMMA DirsHaveDots ==
    ASSUME TypeOK, TreeInv, NEW d \in Inode, InTree(d), IsDir(d)
    PROVE  \E up \in Inode : InTree(up) /\ HasDots(d, up)
<1>1. CASE d = ROOT_INODE
  BY <1>1, TreeAssumption DEF TreeInv, FixedInodes
<1>2. CASE d # ROOT_INODE
  <2>1. PICK up \in Inode, k \in Nat : InTree(up) /\ Named(up, k) /\ To(up, k) = d
    BY <1>2 DEF TreeInv, AllNamed
  <2>2. HasDots(d, up)
    BY <2>1 DEF TreeInv, TreeShape
  <2> QED
    BY <2>1, <2>2
<1> QED
  BY <1>1, <1>2

(* The entries of a directory of the tree lead to inodes in use.           *)
LEMMA EntriesLead ==
    ASSUME TypeOK, TreeInv, NEW d \in Inode, InTree(d), IsDir(d),
           NEW k \in DOMAIN node[d].entries
    PROVE  To(d, k) \in live
<1>1. PICK up \in Inode : InTree(up) /\ HasDots(d, up)
  BY DirsHaveDots
<1>2. k \in Nat /\ (k = 1 \/ k = 2 \/ k > 2)
  BY EntryFields
<1>3. CASE k > 2
  <2>1. Named(d, k)
    BY <1>3 DEF Named
  <2> QED
    BY <1>2, <2>1 DEF TreeInv, NamesLead
<1> QED
  BY <1>1, <1>2, <1>3 DEF HasDots, To, InTree

(* A step that touches neither names nor kinds leaves the tree a tree.     *)
LEMMA SameTree ==
    ASSUME TypeOK, TreeInv, live' = live, lost' = lost, unset' = unset,
           \A x \in Inode : node'[x].dir = node[x].dir
                            /\ node'[x].entries = node[x].entries,
           node'[ROOT_INODE].mode = AllRights
    PROVE  TreeInv'
<1> USE DEF InTree, IsDir, To, Named, HasDots
<1>1. ROOT_INODE \in Inode /\ PASSWD_INODE \in Inode
  BY TreeAssumption
<1>2. FixedInodes'
  BY <1>1 DEF TreeInv, FixedInodes
<1>3. NamesLead' /\ NoTwoNames'
  BY DEF TreeInv, NamesLead, NoTwoNames
<1>4. AllNamed'
  BY DEF TreeInv, AllNamed
<1>5. TreeShape'
  <2>1. \A d \in Inode, k \in Nat : Named(d, k) => To(d, k) \in Inode
    BY DEF TreeInv, NamesLead, TypeOK
  <2>2. ASSUME NEW x \in Inode, InTree(x)', ~IsDir(x)'
        PROVE  (node[x].entries = <<>>)'
    BY <2>2 DEF TreeInv, TreeShape
  <2>3. ASSUME NEW x \in Inode, NEW k \in Nat, InTree(x)', Named(x, k)', IsDir(To(x, k))'
        PROVE  HasDots(To(x, k), x)'
    <3>1. To(x, k)' = To(x, k) /\ To(x, k) \in Inode /\ Named(x, k) /\ InTree(x)
      BY <2>1, <2>3
    <3> PICK y \in Inode : y = To(x, k)
      BY <3>1
    <3>2. IsDir(To(x, k))
      BY <2>3, <3>1
    <3> HIDE DEF InTree, IsDir, To, Named, HasDots
    <3>3. HasDots(To(x, k), x)
      BY <3>1, <3>2 DEF TreeInv, TreeShape
    <3>4. HasDots(y, x)'
      BY <3>3 DEF HasDots
    <3> QED
      BY <3>1, <3>4 DEF HasDots
  <2> QED
    BY <2>2, <2>3 DEF TreeShape
<1>6. NamesApart'
  <2>2. \A d \in Inode : \A k \in DOMAIN node[d].entries :
           node[d].entries[k].id \in Inode
    BY EntryFields
  <2>3. \A d \in live \ lost : IsDir(d) =>
           \A j, k \in DOMAIN node[d].entries :
              \/ j = k \/ Unset(d, j) \/ Unset(d, k)
              \/ node[d].entries[j].name # node[d].entries[k].name
              \/ node[node[d].entries[j].id].dir # node[node[d].entries[k].id].dir
    BY DEF TreeInv, NamesApart
  <2>4. \A d \in Inode : \A k \in DOMAIN node[d].entries :
           Unset(d, k)' <=> Unset(d, k)
    BY DEF Unset
  <2>5. SUFFICES ASSUME NEW d \in Inode, d \in live \ lost, IsDir(d)',
                        NEW j \in DOMAIN node'[d].entries,
                        NEW k \in DOMAIN node'[d].entries
                 PROVE  \/ j = k \/ Unset(d, j)' \/ Unset(d, k)'
                        \/ node'[d].entries[j].name # node'[d].entries[k].name
                        \/ node'[node'[d].entries[j].id].dir
                              # node'[node'[d].entries[k].id].dir
    <3>1. live' \subseteq Inode
      BY DEF TypeOK
    <3> QED
      BY <3>1 DEF NamesApart, Unset, IsDir, InTree
  <2> HIDE DEF InTree, To, Named, HasDots
  <2>6. node'[d].entries = node[d].entries /\ IsDir(d)
    BY <2>5
  <2>7. /\ node[d].entries[j].id \in Inode
        /\ node[d].entries[k].id \in Inode
    BY <2>2, <2>6
  <2> QED
    BY <2>3, <2>4, <2>5, <2>6, <2>7
<1> QED
  BY <1>2, <1>3, <1>4, <1>5, <1>6 DEF TreeInv

(* The names after mk or mkdir: those of before, but for what the new      *)
(* inode held when it was last in use, and the new one.                    *)
LEMMA MakeNames ==
    ASSUME TypeOK, NEW d \in Inode, NEW i \in Inode, NEW given \in Name,
           node'[d].entries = Append(node[d].entries, [name |-> given, id |-> i]),
           i # d => \/ node'[i].entries = <<>>
                    \/ HasDots(i, d)' /\ DOMAIN node'[i].entries = 1 .. 2,
           \A x \in Inode : x # i /\ x # d => node'[x].entries = node[x].entries
    PROVE  /\ \A x \in Inode, k \in Nat : Named(x, k)' =>
                 \/ /\ Named(x, k) /\ To(x, k)' = To(x, k)
                    /\ x # i \/ x = d
                 \/ x = d /\ k = Len(node[d].entries) + 1 /\ To(x, k)' = i
           /\ \A x \in Inode, k \in Nat : x # i /\ Named(x, k) =>
                 Named(x, k)' /\ To(x, k)' = To(x, k)
           /\ \A x, up \in Inode : x # i /\ HasDots(x, up) => HasDots(x, up)'
<1> DEFINE es == node[d].entries
           e == [name |-> given, id |-> i]
<1>1. es \in Seq(Entry)
  BY NodeFields
<1>2. node'[d].entries = Append(es, e)
  OBVIOUS
<1> HIDE DEF es
<1>3. /\ Len(es) \in Nat /\ DOMAIN es = 1 .. Len(es)
      /\ DOMAIN node'[d].entries = 1 .. Len(es) + 1
      /\ Len(node'[d].entries) = Len(es) + 1
      /\ \A k \in 1 .. Len(es) : node'[d].entries[k] = es[k]
      /\ node'[d].entries[Len(es) + 1] = e
  <2> HIDE DEF e
  <2>1. e \in Entry
    BY DEF e, Entry
  <2>2. Append(es, e) \in Seq(Entry) /\ Len(Append(es, e)) = Len(es) + 1
    BY <1>1, <2>1
  <2>3. /\ \A k \in 1 .. Len(es) : Append(es, e)[k] = es[k]
        /\ Append(es, e)[Len(es) + 1] = e
    BY <1>1, <2>1
  <2> DEFINE more == Append(es, e)
  <2>4. node'[d].entries = more
    BY <1>2
  <2> HIDE DEF more
  <2>5. DOMAIN more = 1 .. Len(es) + 1
    BY <2>2 DEF more
  <2>6. Len(es) \in Nat /\ DOMAIN es = 1 .. Len(es)
    BY <1>1
  <2> QED
    BY <2>2, <2>3, <2>4, <2>5, <2>6 DEF more
<1>4. \A k \in Nat : ~(k \in 1 .. 2 /\ HasDots(i, d)' /\ node'[i].entries[k].name \notin Dots)
  BY DEF HasDots, Dots
<1>5. i # d => \A k \in Nat : ~Named(i, k)'
  <2>1. CASE node'[i].entries = <<>>
    BY <2>1 DEF Named
  <2>2. CASE HasDots(i, d)' /\ DOMAIN node'[i].entries = 1 .. 2
    BY <1>4, <2>2 DEF Named
  <2> QED
    BY <2>1, <2>2
<1>6. ASSUME NEW x \in Inode, NEW k \in Nat, Named(x, k)'
      PROVE  \/ /\ Named(x, k) /\ To(x, k)' = To(x, k)
                /\ x # i \/ x = d
             \/ x = d /\ k = Len(es) + 1 /\ To(x, k)' = i
  <2>1. CASE x = d
    BY <1>3, <1>6, <2>1 DEF Named, To, es
  <2>2. CASE x # d
    BY <1>5, <1>6, <2>2 DEF Named, To
  <2> QED
    BY <2>1, <2>2
<1>7. ASSUME NEW x \in Inode, NEW k \in Nat, x # i, Named(x, k)
      PROVE  Named(x, k)' /\ To(x, k)' = To(x, k)
  <2>1. CASE x = d
    <3>1. k \in 1 .. Len(es)
      BY <1>3, <1>7, <2>1 DEF Named, es
    <3>2. node'[d].entries[k] = es[k] /\ k \in DOMAIN node'[d].entries
      BY <1>3, <3>1
    <3> QED
      BY <1>7, <2>1, <3>2 DEF Named, To, es
  <2>2. CASE x # d
    BY <1>7, <2>2 DEF Named, To
  <2> QED
    BY <2>1, <2>2
<1>8. ASSUME NEW x \in Inode, NEW up \in Inode, x # i, HasDots(x, up)
      PROVE  HasDots(x, up)'
  <2>1. CASE x = d
    <3>1. /\ Len(es) >= 2 /\ 1 \in 1 .. Len(es) /\ 2 \in 1 .. Len(es)
          /\ es[1] = [name |-> "..", id |-> up] /\ es[2] = [name |-> ".", id |-> x]
      BY <1>3, <1>8, <2>1 DEF HasDots, es
    <3>2. /\ Len(node'[d].entries) >= 2
          /\ node'[d].entries[1] = es[1] /\ node'[d].entries[2] = es[2]
      BY <1>3, <3>1
    <3> QED
      BY <2>1, <3>1, <3>2 DEF HasDots
  <2>2. CASE x # d
    BY <1>8, <2>2 DEF HasDots
  <2> QED
    BY <2>1, <2>2
<1> QED
  BY <1>6, <1>7, <1>8 DEF es

(* mk and mkdir: the new name leads to the new inode and nowhere else, and *)
(* no name of before leads there (fs.c:make_file, make_dir).               *)
LEMMA MakeKeepsTree ==
    ASSUME TypeOK, TreeInv, NEW c \in Client, NEW q \in Query, NEW dir \in BOOLEAN,
           Make(c, q, dir)
    PROVE  TreeInv'
<1>0. cwd[c] \in Inode /\ Len(node[cwd[c]].entries) + 1 \in Nat
  <2>1. cwd[c] \in Inode
    BY DEF TypeOK
  <2> QED
    BY <2>1, NodeFields
<1> PICK d \in Inode : d = cwd[c]
  BY <1>0
<1> PICK last \in Nat : last = Len(node[d].entries) + 1
  BY <1>0
<1>1. d \in Inode /\ IsDir(d) /\ live \subseteq Inode /\ lost \subseteq live
  BY DEF TypeOK, Make, MayRun, CanRun
<1>2. PICK i \in Inode \ live, given \in Name : Made(c, q, dir, given, i)
  BY MakeEffect, Zenon
<1>3. /\ i \in Inode
      /\ node'[d].entries = Append(node[d].entries, [name |-> given, id |-> i])
      /\ node'[i].dir = dir
      /\ i # d => node'[i].entries =
            IF dir THEN <<[name |-> "..", id |-> d], [name |-> ".", id |-> i]>>
                   ELSE <<>>
      /\ \A x \in Inode : x # i => node'[x].dir = node[x].dir
                                   /\ node'[x].mode = node[x].mode
      /\ \A x \in Inode : x # i /\ x # d => node'[x].entries = node[x].entries
  BY <1>2 DEF Made
<1>4. /\ i # d /\ dir => HasDots(i, d)' /\ DOMAIN node'[i].entries = 1 .. 2
      /\ i # d /\ ~dir => node'[i].entries = <<>>
  <2>0. i # d => node'[i].entries =
            IF dir THEN <<[name |-> "..", id |-> d], [name |-> ".", id |-> i]>>
                   ELSE <<>>
    BY <1>3
  <2>1. CASE dir = TRUE
    BY <2>0, <2>1 DEF HasDots
  <2>2. CASE dir = FALSE
    BY <2>0, <2>2
  <2> QED
    BY <2>1, <2>2
<1>5. /\ last \in Nat
      /\ \A x \in Inode, k \in Nat : Named(x, k)' =>
            \/ /\ Named(x, k) /\ To(x, k)' = To(x, k)
               /\ x # i \/ x = d
            \/ x = d /\ k = last /\ To(x, k)' = i
      /\ \A x \in Inode, k \in Nat : x # i /\ Named(x, k) =>
            Named(x, k)' /\ To(x, k)' = To(x, k)
      /\ \A x, up \in Inode : x # i /\ HasDots(x, up) => HasDots(x, up)'
  <2>1. i # d => \/ node'[i].entries = <<>>
                 \/ HasDots(i, d)' /\ DOMAIN node'[i].entries = 1 .. 2
    BY <1>4
  <2>2. /\ i \in Inode
        /\ node'[d].entries = Append(node[d].entries, [name |-> given, id |-> i])
        /\ \A x \in Inode : x # i /\ x # d => node'[x].entries = node[x].entries
    BY <1>3
  <2>3. /\ \A x \in Inode, k \in Nat : Named(x, k)' =>
              \/ /\ Named(x, k) /\ To(x, k)' = To(x, k)
                 /\ x # i \/ x = d
              \/ x = d /\ k = Len(node[d].entries) + 1 /\ To(x, k)' = i
        /\ \A x \in Inode, k \in Nat : x # i /\ Named(x, k) =>
              Named(x, k)' /\ To(x, k)' = To(x, k)
        /\ \A x, up \in Inode : x # i /\ HasDots(x, up) => HasDots(x, up)'
    BY <2>1, <2>2, MakeNames, SMTT(30)
  <2> QED
    BY <2>3
<1>6. /\ \A x \in Inode : InTree(x)' <=> (InTree(x) \/ (x = i /\ InTree(d)))
      /\ \A x \in Inode : InTree(x) => x # i /\ x \in live
      /\ i \notin live /\ i \in live' /\ live \subseteq live'
      /\ i \in lost' <=> ~InTree(d)
      /\ \A x \in Inode : x # i => (x \in lost' <=> x \in lost)
      /\ InTree(d) => i # d
  <2>1. CASE d \in live \ lost
    BY <1>1, <1>2, <2>1 DEF InTree, Made
  <2>2. CASE d \notin live \ lost
    BY <1>1, <1>2, <2>2 DEF InTree, Made
  <2> QED
    BY <2>1, <2>2
<1> USE DEF InTree, To, Named
<1>7. FixedInodes'
  BY <1>3, <1>5, <1>6, TreeAssumption DEF TreeInv, FixedInodes, IsDir, HasDots
<1>8. NamesLead'
  <2>1. SUFFICES ASSUME NEW x \in Inode, NEW k \in Nat, Named(x, k)'
                 PROVE  /\ To(x, k)' \in live' \ {ROOT_INODE}
                        /\ To(x, k)' \in lost' <=> ~InTree(x)'
                        /\ InTree(x)' => To(x, k)' # x
    BY Zenon DEF NamesLead
  <2>2. ROOT_INODE \in live
    BY DEF TreeInv, FixedInodes, InTree
  <2>3. CASE Named(x, k) /\ To(x, k)' = To(x, k) /\ (x # i \/ x = d)
    <3>1. /\ To(x, k) \in live \ {ROOT_INODE}
          /\ To(x, k) \in lost <=> ~InTree(x)
          /\ InTree(x) => To(x, k) # x
      BY <2>3 DEF TreeInv, NamesLead
    <3>2. To(x, k) \in Inode /\ To(x, k) # i
      BY <1>1, <1>6, <3>1
    <3> QED
      BY <1>6, <2>3, <3>1, <3>2
  <2>4. CASE x = d /\ k = last /\ To(x, k)' = i
    BY <1>6, <2>2, <2>4
  <2> QED
    BY <1>5, <2>1, <2>3, <2>4
<1>9. NoTwoNames'
  <2>1. SUFFICES ASSUME NEW x \in Inode, NEW y \in Inode, NEW j \in Nat, NEW k \in Nat,
                        Named(x, j)', Named(y, k)', To(x, j)' = To(y, k)'
                 PROVE  x = y /\ j = k
    BY Zenon DEF NoTwoNames
  <2>2. \A z \in Inode, l \in Nat : Named(z, l) => To(z, l) # i
    BY <1>6 DEF TreeInv, NamesLead
  <2>3. \/ Named(x, j) /\ To(x, j)' = To(x, j)
        \/ x = d /\ j = last /\ To(x, j)' = i
    BY <1>5, <2>1
  <2>4. \/ Named(y, k) /\ To(y, k)' = To(y, k)
        \/ y = d /\ k = last /\ To(y, k)' = i
    BY <1>5, <2>1
  <2>5. Named(x, j) /\ Named(y, k) /\ To(x, j) = To(y, k) => x = y /\ j = k
    BY DEF TreeInv, NoTwoNames
  <2>6. (Named(x, j) => To(x, j) # i) /\ (Named(y, k) => To(y, k) # i)
    BY <2>2
  <2> QED
    BY <2>1, <2>3, <2>4, <2>5, <2>6
<1>10. AllNamed'
  <2>1. SUFFICES ASSUME NEW x \in Inode \ {ROOT_INODE}, InTree(x)'
                 PROVE  \E e \in Inode, k \in Nat :
                            InTree(e)' /\ Named(e, k)' /\ To(e, k)' = x
    BY Zenon DEF AllNamed
  <2>2. CASE InTree(x)
    <3>1. PICK e \in Inode, k \in Nat : InTree(e) /\ Named(e, k) /\ To(e, k) = x
      BY <2>2 DEF TreeInv, AllNamed
    <3> QED
      BY <1>5, <1>6, <3>1
  <2>3. CASE x = i /\ InTree(d)
    <3>1. PICK up \in Inode : HasDots(d, up)
      BY <1>1, <2>3, DirsHaveDots
    <3>2. Named(d, last)' /\ To(d, last)' = i
      <4>1. Len(node[d].entries) \in Nat /\ last > 2 /\ node[d].entries \in Seq(Entry)
        BY <1>1, <3>1, NodeFields DEF HasDots
      <4> DEFINE e == [name |-> given, id |-> i]
                 es == node[d].entries
      <4>2. node'[d].entries = Append(es, e)
        BY <1>3
      <4> HIDE DEF es, e
      <4>3. last \in DOMAIN node'[d].entries /\ node'[d].entries[last] = e
        BY <4>1, <4>2 DEF es
      <4> QED
        BY <4>1, <4>3 DEF Named, To, e
    <3> QED
      BY <1>1, <1>5, <1>6, <2>3, <3>2
  <2> QED
    BY <1>6, <2>1, <2>2, <2>3
<1>11. TreeShape'
  <2>1. ASSUME NEW x \in Inode, InTree(x)', ~IsDir(x)'
        PROVE  node'[x].entries = <<>>
    <3>1. CASE InTree(x)
      <4>1. ~IsDir(x) /\ x # i /\ x # d
        BY <1>1, <1>3, <1>6, <2>1, <3>1 DEF IsDir
      <4> QED
        BY <1>3, <3>1, <4>1 DEF TreeInv, TreeShape
    <3>2. CASE x = i /\ InTree(d)
      BY <1>3, <1>4, <1>6, <2>1, <3>2 DEF IsDir
    <3> QED
      BY <1>6, <2>1, <3>1, <3>2
  <2>2. ASSUME NEW x \in Inode, NEW k \in Nat, InTree(x)', Named(x, k)',
               NEW t, t = To(x, k)', node'[t].dir
        PROVE  HasDots(t, x)'
    <3>1. CASE Named(x, k) /\ To(x, k)' = To(x, k) /\ (x # i \/ x = d)
      <4>1. InTree(x)
        BY <1>6, <2>2, <3>1
      <4>2. To(x, k) \in live
        BY <3>1 DEF TreeInv, NamesLead
      <4>3. To(x, k) \in Inode /\ To(x, k) # i
        BY <1>1, <1>6, <4>2
      <4>4. IsDir(To(x, k))
        BY <1>3, <2>2, <3>1, <4>3 DEF IsDir
      <4>5. HasDots(t, x) /\ t \in Inode /\ t # i
        BY <2>2, <3>1, <4>1, <4>3, <4>4 DEF TreeInv, TreeShape
      <4> QED
        BY <1>5, <4>5
    <3>2. CASE x = d /\ k = last /\ To(x, k)' = i
      <4>1. i # d
        BY <1>6, <2>2, <3>2
      <4>2. dir
        BY <1>3, <2>2, <3>2 DEF IsDir
      <4> QED
        BY <1>4, <2>2, <3>2, <4>1, <4>2
    <3> QED
      BY <1>5, <2>2, <3>1, <3>2
  <2>3. ASSUME NEW x \in Inode, NEW k \in Nat, InTree(x)', Named(x, k)', IsDir(To(x, k))'
        PROVE  HasDots(To(x, k), x)'
    BY <2>2, <2>3 DEF HasDots, IsDir
  <2> QED
    BY <2>1, <2>3 DEF TreeShape
<1>12. NamesApart'
  <2>1. SUFFICES ASSUME NEW x \in Inode, InTree(x)', IsDir(x)',
                        NEW j \in DOMAIN node'[x].entries,
                        NEW k \in DOMAIN node'[x].entries, j # k,
                        ~Unset(x, j)', ~Unset(x, k)',
                        node'[x].entries[j].name = node'[x].entries[k].name
                 PROVE  node'[node'[x].entries[j].id].dir # node'[node'[x].entries[k].id].dir
    <3>1. live' \subseteq Inode
      BY <1>1, <1>2 DEF Made
    <3> QED
      BY <3>1 DEF NamesApart, InTree, IsDir, Unset
  <2>2. CASE x = i /\ InTree(d)
    BY <1>3, <1>4, <1>6, <2>1, <2>2 DEF HasDots, IsDir
  <2>3. ASSUME InTree(x)
        PROVE  /\ x \in live \ lost /\ x # i /\ IsDir(x)
               /\ \A l \in DOMAIN node[x].entries :
                     /\ node[x].entries[l].id # i
                     /\ node[x].entries[l].id \in Inode
                     /\ node'[node[x].entries[l].id].dir = node[node[x].entries[l].id].dir
    <3>1. x \in live \ lost /\ x # i /\ IsDir(x)
      BY <1>3, <1>6, <2>1, <2>3 DEF IsDir, InTree
    <3>2. \A l \in DOMAIN node[x].entries : node[x].entries[l].id \in live
      BY <2>3, <3>1, EntriesLead DEF To
    <3> QED
      BY <1>1, <1>3, <1>6, <3>1, <3>2
  <2>6. unset \subseteq unset' /\ (q \in Longest => i \in unset')
    BY <1>2 DEF Made
  <2>4. CASE InTree(x) /\ x # d
    BY <1>3, <2>1, <2>3, <2>4, <2>6 DEF TreeInv, NamesApart, Unset, IsDir
  <2>5. CASE InTree(x) /\ x = d
    <3> DEFINE es == node[d].entries
               e == [name |-> given, id |-> i]
    <3>1. es \in Seq(Entry) /\ node'[d].entries = Append(es, e)
      BY <1>1, <1>3, NodeFields
    <3>2. \A l \in DOMAIN es : es[l].name = q => node[es[l].id].dir # dir
      BY DEF Make, Taken, Begins, IsDir
    <3>3. \A l, m \in DOMAIN es : l # m =>
             \/ l > 2 /\ es[l].id \in unset
             \/ m > 2 /\ es[m].id \in unset
             \/ es[l].name # es[m].name \/ node[es[l].id].dir # node[es[m].id].dir
      BY <2>3, <2>5 DEF TreeInv, NamesApart, Unset, IsDir
    <3>4. \A l \in DOMAIN es : node'[es[l].id].dir = node[es[l].id].dir
      BY <2>3, <2>5
    <3> HIDE DEF es
    <3>5. /\ DOMAIN node'[d].entries = DOMAIN es \cup {Len(es) + 1}
          /\ \A l \in DOMAIN es : node'[d].entries[l] = es[l]
          /\ node'[d].entries[Len(es) + 1] = e
      <4> HIDE DEF e
      <4> QED
        BY <3>1
    <3>6. e.name = given /\ e.id = i /\ (q \notin Longest => given = q)
      BY <1>2 DEF Made
    <3> HIDE DEF e
    <3>13. Len(es) + 1 > 2
      <4>1. Len(es) >= 2
        BY <1>1, <2>5, DirsHaveDots DEF HasDots, es
      <4> QED
        BY <3>1, <4>1
    <3>14. j = Len(es) + 1 \/ k = Len(es) + 1 => given = q
      BY <2>1, <2>5, <2>6, <3>5, <3>6, <3>13 DEF Unset
    <3>7. node'[i].dir = dir
      BY <1>3
    <3>8. j \in DOMAIN es \cup {Len(es) + 1} /\ k \in DOMAIN es \cup {Len(es) + 1}
      BY <2>1, <2>5, <3>5
    <3>9. CASE j \in DOMAIN es /\ k \in DOMAIN es
      BY <2>1, <2>5, <2>6, <3>3, <3>4, <3>5, <3>9 DEF Unset
    <3>10. CASE j \in DOMAIN es /\ k = Len(es) + 1
      BY <2>1, <2>5, <3>2, <3>4, <3>5, <3>6, <3>7, <3>10, <3>14
    <3>11. CASE j = Len(es) + 1 /\ k \in DOMAIN es
      BY <2>1, <2>5, <3>2, <3>4, <3>5, <3>6, <3>7, <3>11, <3>14
    <3> QED
      BY <2>1, <3>8, <3>9, <3>10, <3>11
  <2> QED
    BY <1>6, <2>1, <2>2, <2>4, <2>5
<1> QED
  BY <1>7, <1>8, <1>9, <1>10, <1>11, <1>12 DEF TreeInv

(* mk or mkdir that fails loses an inode, and the tree is as it was.       *)
LEMMA MakeFailsKeepsTree ==
    ASSUME TypeOK, TreeInv, NEW c \in Client, NEW q \in Query, NEW dir \in BOOLEAN,
           MakeFails(c, q, dir)
    PROVE  TreeInv'
<1> PICK d \in Inode : d = cwd[c]
  BY DEF TypeOK
<1>1. PICK i \in Inode \ live :
           /\ live' = live \cup {i} /\ lost' = lost \cup {i} /\ unset' = unset
           /\ node' = [node EXCEPT ![i] = NewNode(c, i, dir)]
  BY DEF MakeFails
<1>2. /\ i \in Inode
      /\ \/ node'[i].entries = <<>>
         \/ HasDots(i, d)' /\ DOMAIN node'[i].entries = 1 .. 2
      /\ \A x \in Inode : x # i => node'[x] = node[x]
  <2>1. /\ node'[i].entries =
             IF dir THEN <<[name |-> "..", id |-> d], [name |-> ".", id |-> i]>>
                    ELSE <<>>
        /\ \A x \in Inode : x # i => node'[x] = node[x]
    BY <1>1, MakeFailsEffect
  <2>2. CASE dir = TRUE
    <3>1. HasDots(i, d)' /\ DOMAIN node'[i].entries = 1 .. 2
      BY <2>1, <2>2 DEF HasDots
    <3> QED
      BY <1>1, <2>1, <3>1
  <2>3. CASE dir = FALSE
    <3>1. node'[i].entries = <<>>
      BY <2>1, <2>3
    <3> QED
      BY <1>1, <2>1, <3>1
  <2> QED
    BY <2>2, <2>3
<1>3. \A k \in Nat : ~Named(i, k)'
  <2>1. CASE node'[i].entries = <<>>
    BY <2>1 DEF Named
  <2>2. CASE HasDots(i, d)' /\ DOMAIN node'[i].entries = 1 .. 2
    BY <2>2 DEF HasDots, Named, Dots
  <2> QED
    BY <1>2, <2>1, <2>2
<1>4. \A x \in Inode, k \in Nat :
         /\ Named(x, k)' => x # i /\ Named(x, k) /\ To(x, k)' = To(x, k)
         /\ x # i /\ Named(x, k) => Named(x, k)' /\ To(x, k)' = To(x, k)
  BY <1>2, <1>3 DEF Named, To
<1>5. /\ \A x \in Inode : InTree(x)' <=> InTree(x)
      /\ \A x \in Inode : InTree(x) => x # i /\ x \in live
      /\ i \notin live /\ live \subseteq live' /\ live \subseteq Inode
      /\ \A x \in Inode : x # i => (x \in lost' <=> x \in lost)
  BY <1>1 DEF InTree, TypeOK
<1>6. \A x \in Inode, k \in Nat : Named(x, k) =>
         To(x, k) \in live /\ To(x, k) \in Inode /\ To(x, k) # i
  BY <1>5 DEF TreeInv, NamesLead
<1> USE DEF InTree, To, Named
<1>7. FixedInodes'
  BY <1>2, <1>5, TreeAssumption DEF TreeInv, FixedInodes, IsDir, HasDots
<1>8. NamesLead'
  <2>1. SUFFICES ASSUME NEW x \in Inode, NEW k \in Nat, Named(x, k)'
                 PROVE  /\ To(x, k)' \in live' \ {ROOT_INODE}
                        /\ To(x, k)' \in lost' <=> ~InTree(x)'
                        /\ InTree(x)' => To(x, k)' # x
    BY Zenon DEF NamesLead
  <2>2. /\ To(x, k) \in live \ {ROOT_INODE}
        /\ To(x, k) \in lost <=> ~InTree(x)
        /\ InTree(x) => To(x, k) # x
    BY <1>4, <2>1 DEF TreeInv, NamesLead
  <2> QED
    BY <1>4, <1>5, <1>6, <2>1, <2>2
<1>9. NoTwoNames'
  <2>1. SUFFICES ASSUME NEW x \in Inode, NEW y \in Inode, NEW j \in Nat, NEW k \in Nat,
                        Named(x, j)', Named(y, k)', To(x, j)' = To(y, k)'
                 PROVE  x = y /\ j = k
    BY Zenon DEF NoTwoNames
  <2>2. /\ Named(x, j) /\ To(x, j)' = To(x, j)
        /\ Named(y, k) /\ To(y, k)' = To(y, k)
    BY <1>4, <2>1
  <2>3. Named(x, j) /\ Named(y, k) /\ To(x, j) = To(y, k) => x = y /\ j = k
    BY DEF TreeInv, NoTwoNames
  <2> QED
    BY <2>1, <2>2, <2>3
<1>10. AllNamed'
  <2>1. SUFFICES ASSUME NEW x \in Inode \ {ROOT_INODE}, InTree(x)'
                 PROVE  \E e \in Inode, k \in Nat :
                            InTree(e)' /\ Named(e, k)' /\ To(e, k)' = x
    BY Zenon DEF AllNamed
  <2>2. PICK e \in Inode, k \in Nat : InTree(e) /\ Named(e, k) /\ To(e, k) = x
    BY <1>5, <2>1 DEF TreeInv, AllNamed
  <2> QED
    BY <1>4, <1>5, <2>2
<1>11. TreeShape'
  <2>1. ASSUME NEW x \in Inode, InTree(x)', ~IsDir(x)'
        PROVE  node'[x].entries = <<>>
    BY <1>2, <1>5, <2>1 DEF TreeInv, TreeShape, IsDir
  <2>2. ASSUME NEW x \in Inode, NEW k \in Nat, InTree(x)', Named(x, k)', IsDir(To(x, k))'
        PROVE  HasDots(To(x, k), x)'
    <3>1. To(x, k)' = To(x, k) /\ Named(x, k) /\ InTree(x)
      BY <1>4, <1>5, <2>2
    <3>2. To(x, k) \in Inode /\ To(x, k) # i
      BY <1>6, <3>1
    <3>3. HasDots(To(x, k), x)
      BY <1>2, <2>2, <3>1, <3>2 DEF TreeInv, TreeShape, IsDir
    <3> QED
      BY <1>2, <3>1, <3>2, <3>3 DEF HasDots
  <2> QED
    BY <2>1, <2>2 DEF TreeShape
<1>12. NamesApart'
  <2>1. SUFFICES ASSUME NEW x \in Inode, InTree(x)', IsDir(x)'
                 PROVE  \A j, k \in DOMAIN node'[x].entries :
                           j # k => \/ Unset(x, j)' \/ Unset(x, k)'
                                    \/ node'[x].entries[j].name # node'[x].entries[k].name
                                    \/ node'[node'[x].entries[j].id].dir
                                          # node'[node'[x].entries[k].id].dir
    <3>1. live' \subseteq Inode
      BY <1>1 DEF TypeOK
    <3> QED
      BY <3>1 DEF NamesApart, Unset, IsDir
  <2>2. InTree(x) /\ x # i /\ node'[x] = node[x] /\ IsDir(x)
    BY <1>2, <1>5, <2>1 DEF IsDir
  <2>3. \A l \in DOMAIN node[x].entries :
           node'[node[x].entries[l].id].dir = node[node[x].entries[l].id].dir
    <3>1. \A l \in DOMAIN node[x].entries : node[x].entries[l].id \in live
      BY <2>2, EntriesLead DEF To
    <3> QED
      BY <1>2, <1>5, <3>1
  <2> QED
    BY <1>1, <2>1, <2>2, <2>3 DEF TreeInv, NamesApart, Unset, IsDir
<1> QED
  BY <1>7, <1>8, <1>9, <1>10, <1>11, <1>12 DEF TreeInv

(* chmod of a name leaves the root as it is (fs.c:change_mode).            *)
LEMMA ChmodKeepsTree ==
    ASSUME TypeOK, TreeInv, NEW c \in Client, NEW q \in Query, NEW mode \in Mode,
           Chmod(c, q, mode)
    PROVE  TreeInv'
<1> PICK d \in Inode : d = cwd[c]
  BY DEF TypeOK
<1>1. PICK k \in DOMAIN node[d].entries :
           /\ node[d].entries[k].name = q
           /\ Save([node EXCEPT ![node[d].entries[k].id].mode = mode], d, node[d].entries)
  BY DEF Chmod, IsFirst
<1>2. live' = live /\ lost' = lost /\ unset' = unset /\ q \notin Dots
  BY DEF Chmod
<1>3. PICK i \in Inode : i = node[d].entries[k].id
  BY EntryFields
<1>4. i # ROOT_INODE
  <2>1. k \in Nat
    BY EntryFields
  <2>2. Named(d, k)
    BY <1>1, <1>2 DEF Named
  <2> QED
    BY <1>3, <2>1, <2>2 DEF TreeInv, NamesLead, To
<1>5. \A x \in Inode : /\ node'[x].dir = node[x].dir
                       /\ node'[x].entries = node[x].entries
                       /\ x # i => node'[x].mode = node[x].mode
  BY <1>1, <1>3, ChmodEffect
<1>6. node'[ROOT_INODE].mode = AllRights
  BY <1>4, <1>5, TreeAssumption DEF TreeInv, FixedInodes
<1> QED
  BY <1>2, <1>5, <1>6, SameTree

(* The names after rm and rmdir: those of before, but for the removed one  *)
(* and for those of what it led to; the last may have moved.               *)
NamesLeft(d, i, n, gone) ==
    /\ \A x \in Inode, k \in Nat : Named(x, k)' =>
          /\ x # i \/ x = d
          /\ x = d /\ k = gone => Named(x, n) /\ To(x, k)' = To(x, n) /\ gone < n
          /\ x # d \/ k # gone => Named(x, k) /\ To(x, k)' = To(x, k)
          /\ x = d => k < n
    /\ \A x \in Inode, k \in Nat :
          /\ Named(x, k)
          /\ x # i \/ x = d
          /\ x # d \/ (k # gone /\ gone > 2)
          => \E j \in Nat : Named(x, j)' /\ To(x, j)' = To(x, k)
    /\ gone > 2 => \A x, up \in Inode :
          (x # i \/ x = d) /\ HasDots(x, up) => HasDots(x, up)'

(* That is what taking an entry out leaves. *)
LEMMA RemoveNames ==
    ASSUME TypeOK, NEW d \in Inode, NEW i \in Inode, NEW n \in Nat, NEW gone \in 1 .. n,
           n = Len(node[d].entries),
           node'[d].entries = SwapOut(node[d].entries, gone),
           i # d => node'[i].entries = <<>>,
           \A x \in Inode : x # i /\ x # d => node'[x].entries = node[x].entries
    PROVE  NamesLeft(d, i, n, gone)
<1> DEFINE es == node[d].entries
           left == SwapOut(es, gone)
<1>1. es \in Seq(Entry) /\ n = Len(es) /\ node'[d].entries = left
  BY NodeFields
<1> HIDE DEF es
<1>2. /\ DOMAIN es = 1 .. n /\ DOMAIN left = 1 .. n - 1
      /\ \A k \in 1 .. n - 1 : left[k] = IF k = gone THEN es[n] ELSE es[k]
  BY <1>1 DEF SwapOut
<1>3. Len(left) = n - 1
  <2>1. n - 1 \in Nat
    OBVIOUS
  <2> HIDE DEF left
  <2> QED
    BY <1>2, <2>1
<1> HIDE DEF left
<1>4. ASSUME NEW x \in Inode, NEW k \in Nat, Named(x, k)'
      PROVE  /\ x # i \/ x = d
             /\ x = d /\ k = gone => Named(x, n) /\ To(x, k)' = To(x, n) /\ gone < n
             /\ x # d \/ k # gone => Named(x, k) /\ To(x, k)' = To(x, k)
             /\ x = d => k < n
  <2>1. CASE x = d
    <3>1. k \in 1 .. n - 1 /\ (k > 2 \/ left[k].name \notin Dots)
      BY <1>1, <1>2, <1>4, <2>1 DEF Named
    <3>2. CASE k = gone
      <4>1. left[k] = es[n] /\ n \in DOMAIN es /\ gone < n
        BY <1>2, <3>1, <3>2
      <4>2. n > 2 \/ es[n].name \notin Dots
        BY <3>1, <3>2, <4>1
      <4> QED
        BY <1>1, <2>1, <3>1, <3>2, <4>1, <4>2 DEF Named, To, es
    <3>3. CASE k # gone
      <4>1. left[k] = es[k] /\ k \in DOMAIN es
        BY <1>2, <3>1, <3>3
      <4> QED
        BY <1>1, <2>1, <3>1, <3>3, <4>1 DEF Named, To, es
    <3> QED
      BY <3>2, <3>3
  <2>2. CASE x # d
    <3>1. x # i
      BY <1>4, <2>2 DEF Named
    <3> QED
      BY <1>4, <2>2, <3>1 DEF Named, To
  <2> QED
    BY <2>1, <2>2
<1>5. ASSUME NEW x \in Inode, NEW k \in Nat, Named(x, k), x # i \/ x = d,
             x # d \/ (k # gone /\ gone > 2)
      PROVE  \E j \in Nat : Named(x, j)' /\ To(x, j)' = To(x, k)
  <2>1. CASE x = d
    <3> DEFINE j == IF k = n THEN gone ELSE k
    <3>1. k \in 1 .. n /\ (k > 2 \/ es[k].name \notin Dots)
      BY <1>2, <1>5, <2>1 DEF Named, es
    <3>2. j \in 1 .. n - 1 /\ left[j] = es[k] /\ (j > 2 \/ left[j].name \notin Dots)
      BY <1>2, <1>5, <2>1, <3>1
    <3> HIDE DEF j
    <3>3. Named(x, j)' /\ To(x, j)' = To(x, k)
      BY <1>1, <1>2, <2>1, <3>2 DEF Named, To, es
    <3> QED
      BY <3>2, <3>3
  <2>2. CASE x # d
    <3>1. Named(x, k)' /\ To(x, k)' = To(x, k)
      BY <1>5, <2>2 DEF Named, To
    <3> QED
      BY <3>1
  <2> QED
    BY <2>1, <2>2
<1>6. ASSUME gone > 2, NEW x \in Inode, NEW up \in Inode, x # i \/ x = d, HasDots(x, up)
      PROVE  HasDots(x, up)'
  <2>1. CASE x = d
    <3>1. /\ Len(left) >= 2 /\ left[1] = es[1] /\ left[2] = es[2]
      BY <1>2, <1>3, <1>6
    <3> QED
      BY <1>1, <1>6, <2>1, <3>1 DEF HasDots, es
  <2>2. CASE x # d
    BY <1>6, <2>2 DEF HasDots
  <2> QED
    BY <2>1, <2>2
<1> QED
  BY <1>4, <1>5, <1>6 DEF NamesLeft

(* rm and rmdir: what loses its name held none, and nothing else led to it *)
(* (fs.c:remove_file, remove_dir).                                         *)
LEMMA RemoveKeepsTree ==
    ASSUME TypeOK, TreeInv, NEW c \in Client, NEW q \in Query, NEW dir \in BOOLEAN,
           RemoveEntry(c, q, dir)
    PROVE  TreeInv'
<1> PICK d \in Inode : d = cwd[c]
  BY DEF TypeOK
<1>1. IsDir(d) /\ live \subseteq Inode /\ lost \subseteq live
  BY DEF TypeOK, RemoveEntry, MayRun, CanRun
<1>2. PICK k0 \in DOMAIN node[d].entries :
           LET i == node[d].entries[k0].id IN
           /\ Removable(node[d].entries[k0], q, dir)
           /\ i # PASSWD_INODE
           /\ ~(k0 <= 2 /\ node[d].entries[k0].name \in Dots)
           /\ live' = live \ {i} /\ lost' = lost \ {i} /\ unset' = unset \ {i}
           /\ Save([node EXCEPT ![i].entries = <<>>], d, SwapOut(node[d].entries, k0))
  BY DEF RemoveEntry, IsFirst
<1>3. /\ k0 \in Nat /\ k0 \in 1 .. Len(node[d].entries) /\ Len(node[d].entries) \in Nat
      /\ node[d].entries[k0].id \in Inode
  BY EntryFields
<1> PICK gone \in Nat : gone = k0
  BY <1>3
<1> PICK i \in Inode : i = node[d].entries[gone].id
  BY <1>3
<1> PICK n \in Nat : n = Len(node[d].entries)
  BY <1>3
<1>0. /\ Removable(node[d].entries[gone], q, dir)
      /\ i # PASSWD_INODE
      /\ ~(gone <= 2 /\ node[d].entries[gone].name \in Dots)
      /\ live' = live \ {i} /\ lost' = lost \ {i} /\ unset' = unset \ {i}
  BY <1>2, Zenon
<1>4. /\ gone \in Nat /\ gone \in 1 .. n /\ Named(d, gone) /\ To(d, gone) = i
      /\ i \in live /\ i # ROOT_INODE /\ i # PASSWD_INODE
      /\ i \in lost <=> ~InTree(d)
      /\ InTree(d) => i # d
  <2>1. gone \in Nat /\ gone \in 1 .. n /\ Named(d, gone) /\ To(d, gone) = i
    <3>1. gone > 2 \/ node[d].entries[gone].name \notin Dots
      BY <1>0, <1>3
    <3> QED
      BY <1>3, <3>1 DEF Named, To
  <2> QED
    BY <1>0, <2>1 DEF TreeInv, NamesLead
<1>5. /\ node'[d].entries = SwapOut(node[d].entries, gone)
      /\ i # d => node'[i].entries = <<>>
      /\ \A x \in Inode : /\ node'[x].dir = node[x].dir
                          /\ node'[x].mode = node[x].mode
      /\ \A x \in Inode : x # i /\ x # d => node'[x].entries = node[x].entries
  <2>1. Save([node EXCEPT ![i].entries = <<>>], d, SwapOut(node[d].entries, gone))
    BY <1>2, Zenon
  <2> QED
    BY <2>1, RemoveEffect
<1>6. /\ \A x \in Inode, k \in Nat : Named(x, k)' =>
            /\ x # i \/ x = d
            /\ x = d /\ k = gone => Named(x, n) /\ To(x, k)' = To(x, n) /\ gone < n
            /\ x # d \/ k # gone => Named(x, k) /\ To(x, k)' = To(x, k)
            /\ x = d => k < n
      /\ \A x \in Inode, k \in Nat :
            /\ Named(x, k)
            /\ x # i \/ x = d
            /\ x # d \/ (k # gone /\ gone > 2)
            => \E j \in Nat : Named(x, j)' /\ To(x, j)' = To(x, k)
      /\ gone > 2 => \A x, up \in Inode :
            (x # i \/ x = d) /\ HasDots(x, up) => HasDots(x, up)'
  <2>1. /\ node'[d].entries = SwapOut(node[d].entries, gone)
        /\ i # d => node'[i].entries = <<>>
        /\ \A x \in Inode : x # i /\ x # d => node'[x].entries = node[x].entries
    BY <1>5
  <2>2. gone \in 1 .. n
    BY <1>4
  <2>3. NamesLeft(d, i, n, gone)
    BY <2>1, <2>2, RemoveNames
  <2> QED
    BY <2>3 DEF NamesLeft
<1>7. /\ \A x \in Inode : InTree(x)' <=> (InTree(x) /\ x # i)
      /\ \A x \in Inode : InTree(x) => x \in live
      /\ \A x \in Inode : x # i => (x \in live' <=> x \in live) /\ (x \in lost' <=> x \in lost)
  BY <1>0 DEF InTree
<1>8. InTree(d) => gone > 2
  <2>1. ASSUME NEW up \in Inode, HasDots(d, up) PROVE gone > 2
    <3>1. node[d].entries[1].name \in Dots /\ node[d].entries[2].name \in Dots
      BY <2>1 DEF HasDots, Dots
    <3> QED
      BY <1>3, <1>4, <3>1 DEF Named
  <2> QED
    BY <1>1, <2>1, DirsHaveDots
(* What is removed from the tree held no names. *)
<1>9. InTree(i) => InTree(d) /\ \A k \in Nat : ~Named(i, k)
  <2> SUFFICES ASSUME InTree(i) PROVE InTree(d) /\ \A k \in Nat : ~Named(i, k)
    OBVIOUS
  <2>1. InTree(d)
    BY <1>4 DEF InTree
  <2>2. CASE ~IsDir(i)
    <3>1. node[i].entries = <<>>
      BY <2>2 DEF TreeInv, TreeShape
    <3> QED
      BY <2>1, <3>1 DEF Named
  <2>3. CASE IsDir(i)
    <3>1. HasDots(i, d)
      <4>1. \A x \in Inode, k \in Nat :
               InTree(x) /\ Named(x, k) /\ IsDir(To(x, k)) => HasDots(To(x, k), x)
        BY DEF TreeInv, TreeShape
      <4> QED
        BY <1>4, <2>1, <2>3, <4>1
    <3> DEFINE es == node[i].entries
    <3>2. Len(es) <= 2
      <4>1. /\ node[i].dir = dir
            /\ dir => Len(node[i].entries) <= 2
        BY <1>0 DEF Removable, IsDir
      <4> QED
        BY <2>3, <4>1 DEF IsDir
    <3>3. es \in Seq(Entry) /\ es[1].name \in Dots /\ es[2].name \in Dots
      BY <3>1, NodeFields DEF HasDots, Dots
    <3> HIDE DEF es
    <3>4. DOMAIN es = 1 .. Len(es) /\ Len(es) \in Nat
      BY <3>3
    <3>5. \A k \in DOMAIN es : k = 1 \/ k = 2
      BY <3>2, <3>4
    <3>6. \A k \in DOMAIN es : ~(k > 2) /\ es[k].name \in Dots
      BY <3>3, <3>5
    <3> QED
      BY <2>1, <3>6 DEF Named, es
  <2> QED
    BY <2>2, <2>3
<1>10. \A x \in Inode, k \in Nat :
          /\ Named(x, k) => To(x, k) \in live /\ To(x, k) \in Inode
          /\ Named(x, k) /\ To(x, k) = i => x = d /\ k = gone
  BY <1>1, <1>4 DEF TreeInv, NamesLead, NoTwoNames
(* Where a name was before. *)
<1>11. ASSUME NEW x \in Inode, NEW k \in Nat, Named(x, k)'
       PROVE  \E s \in Nat : /\ s = (IF x = d /\ k = gone THEN n ELSE k)
                             /\ Named(x, s) /\ To(x, k)' = To(x, s)
                             /\ x # d \/ s # gone
                             /\ x # i \/ ~InTree(x)
                             /\ To(x, s) \in Inode /\ To(x, s) # i
  <2>1. x # i \/ ~InTree(x)
    BY <1>4, <1>6, <1>11
  <2>2. CASE x = d /\ k = gone
    <3>1. Named(x, n) /\ To(x, k)' = To(x, n) /\ gone < n
      BY <1>6, <1>11, <2>2
    <3>2. To(x, n) \in Inode /\ To(x, n) # i
      BY <1>4, <1>10, <3>1
    <3> QED
      BY <1>4, <2>1, <2>2, <3>1, <3>2
  <2>3. CASE x # d \/ k # gone
    <3>1. Named(x, k) /\ To(x, k)' = To(x, k)
      BY <1>6, <1>11, <2>3
    <3>2. To(x, k) \in Inode /\ To(x, k) # i
      BY <1>10, <2>3, <3>1
    <3> QED
      BY <2>1, <2>3, <3>1, <3>2
  <2> QED
    BY <2>2, <2>3
<1>12. FixedInodes'
  <2>1. \A x, up \in Inode : InTree(x) /\ x # i /\ HasDots(x, up) => HasDots(x, up)'
    <3>1. CASE InTree(d)
      BY <1>6, <1>8, <3>1
    <3>2. CASE ~InTree(d)
      BY <1>5, <3>2 DEF HasDots
    <3> QED
      BY <3>1, <3>2
  <2>2. InTree(ROOT_INODE) /\ HasDots(ROOT_INODE, ROOT_INODE)
    BY DEF TreeInv, FixedInodes
  <2>3. HasDots(ROOT_INODE, ROOT_INODE)'
    BY <1>4, <2>1, <2>2, TreeAssumption
  <2> QED
    BY <1>4, <1>5, <1>7, <2>3, TreeAssumption DEF TreeInv, FixedInodes, IsDir, InTree
<1>13. NamesLead'
  <2>1. SUFFICES ASSUME NEW x \in Inode, NEW k \in Nat, Named(x, k)'
                 PROVE  /\ To(x, k)' \in live' \ {ROOT_INODE}
                        /\ To(x, k)' \in lost' <=> ~InTree(x)'
                        /\ InTree(x)' => To(x, k)' # x
    BY Zenon DEF NamesLead
  <2>2. PICK s \in Nat : /\ Named(x, s) /\ To(x, k)' = To(x, s)
                         /\ x # i \/ ~InTree(x)
                         /\ To(x, s) \in Inode /\ To(x, s) # i
    BY <1>11, <2>1
  <2>3. /\ To(x, s) \in live \ {ROOT_INODE}
        /\ To(x, s) \in lost <=> ~InTree(x)
        /\ InTree(x) => To(x, s) # x
    BY <2>2 DEF TreeInv, NamesLead
  <2>4. To(x, s) \in live' /\ (To(x, s) \in lost' <=> To(x, s) \in lost)
    BY <1>7, <2>2, <2>3
  <2> QED
    BY <1>7, <2>2, <2>3, <2>4 DEF InTree
<1>14. NoTwoNames'
  <2>1. SUFFICES ASSUME NEW x \in Inode, NEW y \in Inode, NEW j \in Nat, NEW k \in Nat,
                        Named(x, j)', Named(y, k)', To(x, j)' = To(y, k)'
                 PROVE  x = y /\ j = k
    BY Zenon DEF NoTwoNames
  <2>2. PICK s \in Nat : /\ s = (IF x = d /\ j = gone THEN n ELSE j)
                         /\ Named(x, s) /\ To(x, j)' = To(x, s)
    BY <1>11, <2>1
  <2>3. PICK t \in Nat : /\ t = (IF y = d /\ k = gone THEN n ELSE k)
                         /\ Named(y, t) /\ To(y, k)' = To(y, t)
    BY <1>11, <2>1
  <2>4. Named(x, s) /\ Named(y, t) /\ To(x, s) = To(y, t) => x = y /\ s = t
    BY DEF TreeInv, NoTwoNames
  <2>5. x = y /\ s = t
    BY <2>1, <2>2, <2>3, <2>4
  <2>6. (x = d => j < n) /\ (y = d => k < n)
    BY <1>6, <2>1
  <2> QED
    BY <2>2, <2>3, <2>5, <2>6
<1>15. AllNamed'
  <2>1. SUFFICES ASSUME NEW x \in Inode \ {ROOT_INODE}, InTree(x)'
                 PROVE  \E e \in Inode, k \in Nat :
                            InTree(e)' /\ Named(e, k)' /\ To(e, k)' = x
    BY Zenon DEF AllNamed
  <2>2. InTree(x) /\ x # i
    BY <1>7, <2>1
  <2>3. PICK e \in Inode, s \in Nat : InTree(e) /\ Named(e, s) /\ To(e, s) = x
    BY <2>2 DEF TreeInv, AllNamed
  <2>4. e # i /\ (e # d \/ (s # gone /\ gone > 2))
    BY <1>4, <1>8, <1>9, <2>2, <2>3
  <2>5. PICK k \in Nat : Named(e, k)' /\ To(e, k)' = To(e, s)
    BY <1>6, <2>3, <2>4
  <2> QED
    BY <1>7, <2>3, <2>4, <2>5
<1>16. TreeShape'
  <2>1. ASSUME NEW x \in Inode, InTree(x)', ~IsDir(x)'
        PROVE  node'[x].entries = <<>>
    <3>1. x # d /\ x # i /\ InTree(x) /\ ~IsDir(x)
      BY <1>1, <1>5, <1>7, <2>1 DEF IsDir
    <3> QED
      BY <1>5, <3>1 DEF TreeInv, TreeShape
  <2>2. ASSUME NEW x \in Inode, NEW k \in Nat, InTree(x)', Named(x, k)',
               NEW t, t = To(x, k)', node'[t].dir
        PROVE  HasDots(t, x)'
    <3>1. PICK s \in Nat : Named(x, s) /\ t = To(x, s) /\ t \in Inode /\ t # i
      BY <1>11, <2>2
    <3>2. InTree(x) /\ IsDir(t)
      BY <1>5, <1>7, <2>2, <3>1 DEF IsDir
    <3>3. HasDots(t, x)
      <4>1. Named(x, s) /\ InTree(x) /\ IsDir(To(x, s)) => HasDots(To(x, s), x)
        BY DEF TreeInv, TreeShape
      <4> QED
        BY <3>1, <3>2, <4>1
    <3>4. InTree(t)
      BY <3>1, <3>2 DEF TreeInv, NamesLead, InTree
    <3>5. CASE t = d
      BY <1>6, <1>8, <3>3, <3>4, <3>5
    <3>6. CASE t # d
      BY <1>5, <3>1, <3>3, <3>6 DEF HasDots
    <3> QED
      BY <3>5, <3>6
  <2>3. ASSUME NEW x \in Inode, NEW k \in Nat, InTree(x)', Named(x, k)', IsDir(To(x, k))'
        PROVE  HasDots(To(x, k), x)'
    BY <2>2, <2>3 DEF HasDots, IsDir
  <2> QED
    BY <2>1, <2>3 DEF TreeShape
<1>17. NamesApart'
  <2>1. SUFFICES ASSUME NEW x \in Inode, InTree(x)', IsDir(x)'
                 PROVE  \A j, k \in DOMAIN node'[x].entries :
                           j # k => \/ Unset(x, j)' \/ Unset(x, k)'
                                    \/ node'[x].entries[j].name # node'[x].entries[k].name
                                    \/ node'[node'[x].entries[j].id].dir
                                          # node'[node'[x].entries[k].id].dir
    <3>1. live' \subseteq Inode
      BY <1>0, <1>1
    <3> QED
      BY <3>1 DEF NamesApart, Unset, IsDir, InTree
  <2>2. InTree(x) /\ x # i /\ IsDir(x)
    BY <1>5, <1>7, <2>1 DEF IsDir
  <2> DEFINE es == node[x].entries
             left == SwapOut(es, gone)
  <2>3. \A l \in DOMAIN es : node'[es[l].id].dir = node[es[l].id].dir
    BY <1>5, EntryFields
  <2>4. \A l, m \in DOMAIN es : l # m =>
           \/ l > 2 /\ es[l].id \in unset
           \/ m > 2 /\ es[m].id \in unset
           \/ es[l].name # es[m].name \/ node[es[l].id].dir # node[es[m].id].dir
    BY <2>2 DEF TreeInv, NamesApart, Unset, IsDir, InTree
  <2>7. \A l \in DOMAIN es : l > 2 /\ es[l].id \in unset /\ (x # d \/ l # gone)
                                => es[l].id \in unset'
    <3>1. ASSUME NEW l \in DOMAIN es, l > 2, x # d \/ l # gone
          PROVE  es[l].id # i
      <4>1. l \in Nat
        BY EntryFields
      <4>2. Named(x, l) /\ To(x, l) = es[l].id
        BY <3>1 DEF Named, To
      <4> QED
        BY <1>10, <3>1, <4>1, <4>2
    <3> QED
      BY <1>0, <3>1
  <2>5. CASE x # d
    <3>1. node'[x].entries = es
      BY <1>5, <2>2, <2>5
    <3> HIDE DEF es
    <3> QED
      BY <2>3, <2>4, <2>5, <2>7, <3>1 DEF Unset
  <2>6. CASE x = d
    <3>1. es \in Seq(Entry) /\ n = Len(es) /\ node'[x].entries = left
      BY <1>5, <2>6, NodeFields
    <3> HIDE DEF es
    <3>2. /\ DOMAIN es = 1 .. n /\ DOMAIN left = 1 .. n - 1
          /\ \A k \in 1 .. n - 1 : left[k] = IF k = gone THEN es[n] ELSE es[k]
      BY <3>1 DEF SwapOut
    <3> HIDE DEF left
    <3> SUFFICES ASSUME NEW j \in 1 .. n - 1, NEW k \in 1 .. n - 1, j # k
                 PROVE  \/ j > 2 /\ left[j].id \in unset'
                        \/ k > 2 /\ left[k].id \in unset'
                        \/ left[j].name # left[k].name
                        \/ node'[left[j].id].dir # node'[left[k].id].dir
      BY <3>1, <3>2 DEF Unset
    <3> DEFINE src(l) == IF l = gone THEN n ELSE l
    <3>3. src(j) \in DOMAIN es /\ left[j] = es[src(j)]
      BY <3>2
    <3>4. src(k) \in DOMAIN es /\ left[k] = es[src(k)]
      BY <3>2
    <3>5. src(j) # src(k)
      OBVIOUS
    <3>6. gone > 2
      BY <1>8, <2>2, <2>6
    <3>7. /\ src(j) > 2 => j > 2 /\ src(j) # gone
          /\ src(k) > 2 => k > 2 /\ src(k) # gone
      BY <3>6
    <3> HIDE DEF src
    <3> QED
      BY <2>3, <2>4, <2>7, <3>3, <3>4, <3>5, <3>7
  <2> QED
    BY <2>5, <2>6
<1> QED
  BY <1>12, <1>13, <1>14, <1>15, <1>16, <1>17 DEF TreeInv

(* A disk as fs_format leaves it *)
Formatted ==
    /\ \E home \in Inode \ {ROOT_INODE, PASSWD_INODE} :
          /\ live = {ROOT_INODE, PASSWD_INODE, home}
          /\ node = FormattedTree(home)
    /\ lost = {} /\ unset = {}

(* Its names are "home" and "passwd" in the root (fs.c:fs_format).         *)
LEMMA FormattedIsTree == Formatted => TreeInv
<1> SUFFICES ASSUME Formatted PROVE TreeInv
  OBVIOUS
<1>1. PICK home \in Inode \ {ROOT_INODE, PASSWD_INODE} :
           live = {ROOT_INODE, PASSWD_INODE, home} /\ node = FormattedTree(home)
  BY DEF Formatted
<1>2. /\ ROOT_INODE \in Inode /\ PASSWD_INODE \in Inode
      /\ home \in Inode /\ home # ROOT_INODE /\ home # PASSWD_INODE /\ ROOT_INODE # PASSWD_INODE
      /\ live = {ROOT_INODE, PASSWD_INODE, home} /\ lost = {}
  BY <1>1, TreeAssumption DEF Formatted
<1>3. /\ node \in [Inode -> Node]
      /\ node[ROOT_INODE].dir = TRUE /\ node[ROOT_INODE].mode = AllRights
      /\ Len(node[ROOT_INODE].entries) = 4
      /\ node[ROOT_INODE].entries[1] = [name |-> "..", id |-> ROOT_INODE]
      /\ node[ROOT_INODE].entries[2] = [name |-> ".", id |-> ROOT_INODE]
      /\ node[ROOT_INODE].entries[3] = [name |-> "home", id |-> home]
      /\ node[ROOT_INODE].entries[4] = [name |-> "passwd", id |-> PASSWD_INODE]
      /\ node[home].dir = TRUE
      /\ node[home].entries =
            <<[name |-> "..", id |-> ROOT_INODE], [name |-> ".", id |-> home]>>
      /\ \A x \in Inode \ {ROOT_INODE, home} : node[x].dir = FALSE /\ node[x].entries = <<>>
  <2>1. Fresh(node, home)
    BY <1>1, FormatEffect
  <2> QED
    BY <2>1 DEF Fresh
<1>4. DOMAIN node[ROOT_INODE].entries = 1 .. 4
  <2>1. node[ROOT_INODE].entries \in Seq(Entry)
    BY <1>2, <1>3 DEF Node
  <2> QED
    BY <1>3, <2>1
<1>5. /\ DOMAIN node[home].entries = 1 .. 2
      /\ HasDots(home, ROOT_INODE) /\ HasDots(ROOT_INODE, ROOT_INODE)
  BY <1>3 DEF HasDots
<1>6. \A x \in Inode \ {ROOT_INODE, home} : node[x].entries = <<>>
  BY <1>3
<1>7. \A x \in Inode : InTree(x) <=> (x = ROOT_INODE \/ x = PASSWD_INODE \/ x = home)
  BY <1>2 DEF InTree
<1>8. ASSUME NEW d \in Inode, NEW k \in Nat, Named(d, k)
      PROVE  /\ d = ROOT_INODE /\ k \in {3, 4}
             /\ k = 3 => To(d, k) = home
             /\ k = 4 => To(d, k) = PASSWD_INODE
  <2>1. CASE d = ROOT_INODE
    <3>1. k \in 1 .. 4 /\ ~(k = 1 \/ k = 2)
      <4>1. k \in 1 .. 4 /\ (k > 2 \/ node[ROOT_INODE].entries[k].name \notin Dots)
        BY <1>4, <1>8, <2>1 DEF Named
      <4>2. node[ROOT_INODE].entries[1].name \in Dots /\ node[ROOT_INODE].entries[2].name \in Dots
        BY <1>3 DEF Dots
      <4> QED
        BY <4>1, <4>2
    <3> QED
      BY <1>3, <2>1, <3>1 DEF To
  <2>2. CASE d = home
    <3>1. (k = 1 \/ k = 2) /\ ~(k > 2) /\ node[home].entries[k].name \in Dots
      BY <1>5, <1>8, <2>2 DEF Named, HasDots, Dots
    <3> QED
      BY <1>8, <2>2, <3>1 DEF Named
  <2>3. CASE d # ROOT_INODE /\ d # home
    BY <1>6, <1>8, <2>3 DEF Named
  <2> QED
    BY <2>1, <2>2, <2>3
<1>9. /\ Named(ROOT_INODE, 3) /\ To(ROOT_INODE, 3) = home
      /\ Named(ROOT_INODE, 4) /\ To(ROOT_INODE, 4) = PASSWD_INODE
  BY <1>3, <1>4 DEF Named, To
<1>10. FixedInodes
  BY <1>2, <1>3, <1>5, <1>7 DEF FixedInodes, IsDir
<1>11. NamesLead
  BY <1>2, <1>7, <1>8 DEF NamesLead
<1>12. NoTwoNames
  BY <1>2, <1>8 DEF NoTwoNames
<1>13. AllNamed
  BY <1>2, <1>7, <1>9 DEF AllNamed
<1>14. TreeShape
  <2>1. ASSUME NEW x \in Inode, InTree(x), ~IsDir(x) PROVE node[x].entries = <<>>
    BY <1>3, <1>6, <2>1 DEF IsDir
  <2>2. ASSUME NEW d \in Inode, NEW k \in Nat, Named(d, k), IsDir(To(d, k))
        PROVE  HasDots(To(d, k), d)
    BY <1>2, <1>3, <1>5, <1>8, <2>2 DEF IsDir
  <2> QED
    BY <2>1, <2>2 DEF TreeShape
<1>15. NamesApart
  <2>1. ASSUME NEW d \in Inode, InTree(d), IsDir(d),
               NEW j \in DOMAIN node[d].entries, NEW k \in DOMAIN node[d].entries, j # k
        PROVE  node[d].entries[j].name # node[d].entries[k].name
    <3>1. d = ROOT_INODE \/ d = home
      BY <1>2, <1>3, <1>7, <2>1 DEF IsDir
    <3>2. CASE d = ROOT_INODE
      <4>1. j \in 1 .. 4 /\ k \in 1 .. 4
        BY <1>4, <2>1, <3>2
      <4>2. /\ node[d].entries[1].name = ".." /\ node[d].entries[2].name = "."
            /\ node[d].entries[3].name = "home" /\ node[d].entries[4].name = "passwd"
        BY <1>3, <3>2
      <4> QED
        BY <2>1, <4>1, <4>2
    <3>3. CASE d = home
      BY <1>5, <2>1, <3>3 DEF HasDots
    <3> QED
      BY <3>1, <3>2, <3>3
  <2>2. live \subseteq Inode
    BY <1>2
  <2> QED
    BY <2>1, <2>2 DEF NamesApart, InTree
<1> QED
  BY <1>10, <1>11, <1>12, <1>13, <1>14, <1>15 DEF TreeInv

(* "f" makes a tree of whatever there was (fs.c:fs_format).                *)
LEMMA FormatMakesTree == (Formatted => TreeInv)'
BY FormattedIsTree, PTL

(* Every step keeps the tree one (fs_operation_wrapper).                   *)
LEMMA NextKeepsTree ==
    ASSUME TypeOK, TreeInv, [Next]_vars
    PROVE  TreeInv'
<1>1. node' = node /\ live' = live /\ lost' = lost /\ unset' = unset => TreeInv'
  BY SameTree, TreeAssumption DEF TreeInv, FixedInodes
<1>2. CASE UNCHANGED vars
  BY <1>1, <1>2 DEF vars, tree
<1>3. CASE Format
  BY <1>3, FormatMakesTree DEF Format, Formatted
<1>4. CASE Restart
  BY <1>1, <1>4 DEF Restart, tree
<1>5. ASSUME NEW c \in Client, NEW q \in Query, NEW dir \in BOOLEAN,
             Make(c, q, dir) \/ MakeFails(c, q, dir) \/ RemoveEntry(c, q, dir)
      PROVE  TreeInv'
  BY <1>5, MakeKeepsTree, MakeFailsKeepsTree, RemoveKeepsTree, Zenon
<1>6. ASSUME NEW c \in Client, NEW path \in Path, Cd(c, path)
      PROVE  TreeInv'
  BY <1>1, <1>6, SavedAsIs DEF Cd
<1>7. ASSUME NEW c \in Client, NEW q \in Query, NEW mode \in Mode, Chmod(c, q, mode)
      PROVE  TreeInv'
  BY <1>7, ChmodKeepsTree
<1>8. ASSUME NEW c \in Client, NEW n \in AccName,
             NewAccount(c, n) \/ LoginAs(c, n) \/ RemoveAccount(c, n)
      PROVE  TreeInv'
  BY <1>1, <1>8, SavedAsIs DEF NewAccount, LoginAs, RemoveAccount
<1> QED
  BY <1>2, <1>3, <1>4, <1>5, <1>6, <1>7, <1>8 DEF Next, Command

(* The tree with its types, at every moment                                *)
LEMMA TreeStays == Spec => [](TypeOK /\ TreeInv)
<1>1. Init => TypeOK /\ TreeInv
  BY InitTyped, FormattedIsTree DEF Init, Formatted
<1>2. TypeOK /\ TreeInv /\ [Next]_vars => (TypeOK /\ TreeInv)'
  BY NextTyped, NextKeepsTree
<1> QED
  BY <1>1, <1>2, PTL DEF Spec

-----------------------------------------------------------------------------
(* A directory of the tree holds no two files and no two directories of    *)
(* one name, however often names were removed and given again, but for     *)
(* those whose name was never set: their request was MAX_NAME_LEN          *)
(* characters long (fs.c:make_file, make_dir, remove_file, remove_dir).    *)
THEOREM NamesStayApart == Spec => []NamesApart
<1>1. TreeInv => NamesApart
  BY DEF TreeInv
<1> QED
  BY <1>1, TreeStays, PTL

(* What Links are: the names of directories of the tree.                   *)
LEMMA LinksAreNames ==
    ASSUME TypeOK, TreeInv
    PROVE  /\ \A l \in Links : \E d \in Inode, k \in Nat :
                 /\ l = <<d, k>> /\ InTree(d) /\ Named(d, k)
                 /\ Target(l) = To(d, k)
           /\ \A d \in Inode, k \in Nat :
                 InTree(d) /\ Named(d, k) => <<d, k>> \in Links
<1>1. ASSUME NEW l \in Links
      PROVE  \E d \in Inode, k \in Nat :
                /\ l = <<d, k>> /\ InTree(d) /\ Named(d, k)
                /\ Target(l) = To(d, k)
  <2>1. PICK d \in live \ lost, k \in Nat :
           IsDir(d) /\ k \in 3 .. Len(node[d].entries) /\ l = <<d, k>>
    <3>1. PICK d \in live \ lost :
             IsDir(d) /\ l \in {<<d, k>> : k \in 3 .. Len(node[d].entries)}
      BY <1>1 DEF Links
    <3>2. PICK k \in 3 .. Len(node[d].entries) : l = <<d, k>>
      BY <3>1
    <3>3. Len(node[d].entries) \in Nat
      BY <3>1, NodeFields DEF TypeOK
    <3> QED
      BY <3>1, <3>2, <3>3
  <2>2. d \in Inode /\ k > 2 /\ k \in DOMAIN node[d].entries
    <3>1. d \in Inode
      BY DEF TypeOK
    <3>2. node[d].entries \in Seq(Entry)
      BY <3>1, NodeFields
    <3> QED
      BY <2>1, <3>1, <3>2
  <2>3. InTree(d) /\ Named(d, k) /\ Target(l) = To(d, k)
    BY <2>1, <2>2 DEF InTree, Named, Target, To
  <2> QED
    BY <2>1, <2>2, <2>3
<1>2. ASSUME NEW d \in Inode, NEW k \in Nat, InTree(d), Named(d, k)
      PROVE  <<d, k>> \in Links
  <2>1. IsDir(d)
    BY <1>2 DEF TreeInv, TreeShape, Named
  <2>2. PICK up \in Inode : HasDots(d, up)
    BY <1>2, <2>1, DirsHaveDots
  <2>3. k \in 1 .. Len(node[d].entries) /\ Len(node[d].entries) \in Nat
    BY <1>2, EntryFields DEF Named
  <2>4. node[d].entries[1].name \in Dots /\ node[d].entries[2].name \in Dots
    BY <2>2 DEF HasDots, Dots
  <2>5. k > 2
    BY <1>2, <2>3, <2>4 DEF Named
  <2> QED
    BY <1>2, <2>1, <2>3, <2>5 DEF Links, InTree
<1> QED
  BY <1>1, <1>2

(* "." is the directory and ".." the one that holds its name               *)
(* (fs.c:make_dir, remove_dir).                                            *)
THEOREM DotsStay == Spec => []DotsLeadBack
<1>1. TypeOK /\ TreeInv => DotsLeadBack
  <2> SUFFICES ASSUME TypeOK, TreeInv, NEW l \in Links, IsDir(Target(l))
               PROVE  /\ Len(node[Target(l)].entries) >= 2
                      /\ node[Target(l)].entries[1] = [name |-> "..", id |-> l[1]]
                      /\ node[Target(l)].entries[2] = [name |-> ".", id |-> Target(l)]
    BY DEF DotsLeadBack
  <2>1. PICK d \in Inode, k \in Nat :
           l = <<d, k>> /\ InTree(d) /\ Named(d, k) /\ Target(l) = To(d, k)
    BY LinksAreNames
  <2>2. HasDots(Target(l), d)
    BY <2>1 DEF TreeInv, TreeShape
  <2> QED
    BY <2>1, <2>2 DEF HasDots
<1> QED
  BY <1>1, TreeStays, PTL

(* Every inode in use has one name, but for the root and the lost ones     *)
(* (fs.c:make_file, make_dir, remove_file, remove_dir).                    *)
THEOREM NamesAreOne == Spec => []OneName
<1>1. TypeOK /\ TreeInv => OneName
  <2> SUFFICES ASSUME TypeOK, TreeInv PROVE OneName
    OBVIOUS
  <2>1. ASSUME NEW l \in Links PROVE Target(l) \in live \ (lost \cup {ROOT_INODE})
    <3>1. PICK d \in Inode, k \in Nat :
             InTree(d) /\ Named(d, k) /\ Target(l) = To(d, k)
      BY LinksAreNames
    <3> QED
      BY <3>1 DEF TreeInv, NamesLead
  <2>2. ASSUME NEW i \in live \ (lost \cup {ROOT_INODE})
        PROVE  Cardinality({l \in Links : Target(l) = i}) = 1
    <3>1. i \in Inode \ {ROOT_INODE} /\ InTree(i)
      BY DEF TypeOK, InTree
    <3>2. PICK d \in Inode, k \in Nat : InTree(d) /\ Named(d, k) /\ To(d, k) = i
      BY <3>1 DEF TreeInv, AllNamed
    <3>3. <<d, k>> \in Links /\ Target(<<d, k>>) = i
      BY <3>2, LinksAreNames DEF Target, To
    <3>4. ASSUME NEW l \in Links, Target(l) = i PROVE l = <<d, k>>
      <4>1. PICK e \in Inode, j \in Nat : l = <<e, j>> /\ Named(e, j) /\ To(e, j) = i
        BY <3>4, LinksAreNames
      <4> QED
        BY <3>2, <4>1 DEF TreeInv, NoTwoNames
    <3>5. {l \in Links : Target(l) = i} = {<<d, k>>}
      BY <3>3, <3>4
    <3> QED
      BY <3>5, FS_Singleton
  <2> QED
    BY <2>1, <2>2 DEF OneName
<1> QED
  BY <1>1, TreeStays, PTL

(* A client only ever comes to stand in directories that it may read       *)
(* (fs.c:change_dir).                                                      *)
THEOREM ArrivalsStayAllowed == Spec => ArrivalsAllowed
<1> DEFINE Arrives == \A c \in Client : cwd'[c] # cwd[c] => MayStand(c)'
<1>1. ASSUME TypeOK, TreeInv, TypeOK', TreeInv', [Next]_vars
      PROVE  [Arrives]_vars
  <2>1. /\ cwd \in [Client -> Inode] /\ ROOT_INODE \in Inode
        /\ node[ROOT_INODE].dir /\ node[ROOT_INODE].mode = AllRights
        /\ node'[ROOT_INODE].dir /\ node'[ROOT_INODE].mode = AllRights
    BY <1>1, TreeAssumption DEF TypeOK, TreeInv, FixedInodes, IsDir
  <2>2. <<"other", "r">> \in AllRights
    BY DEF AllRights, Right
  <2>3. CASE UNCHANGED vars
    BY <2>3
  <2>4. CASE Format
    BY <2>4 DEF Format
  <2>5. CASE Restart
    <3>1. ASSUME NEW c \in Client PROVE MayStand(c)'
      <4>1. cwd'[c] = ROOT_INODE
        BY <2>5 DEF Restart
      <4> QED
        BY <2>1, <2>2, <4>1 DEF MayStand, IsDir, May
    <3> QED
      BY <3>1
  <2>6. ASSUME NEW c \in Client, NEW path \in Path, Cd(c, path)
        PROVE  Arrives
    <3>1. node' = node /\ uid' = uid
      BY <1>1, <2>6, SavedAsIs DEF Cd, accounts
    <3>2. PICK n \in 0 .. Len(path) : \E way \in Ways(c, path, n) :
                cwd' = [cwd EXCEPT ![c] = way[n]]
      BY <2>6 DEF Cd
    <3>3. PICK way \in Ways(c, path, n) : cwd' = [cwd EXCEPT ![c] = way[n]]
      BY <3>2
    <3>4. /\ way \in [0 .. n -> Inode] /\ way[0] = cwd[c]
          /\ \A k \in 1 .. n : Onward(c, way[k - 1], path[k], way[k])
      BY <3>3 DEF Ways
    <3>5. CASE n = 0
      BY <2>1, <3>3, <3>4, <3>5
    <3>6. CASE n > 0
      <4>1. n \in 1 .. n
        BY <3>2, <3>6
      <4>2. Onward(c, way[n - 1], path[n], way[n])
        BY <3>4, <4>1
      <4>3. node[way[n]].dir /\ May(c, way[n], "r")
        <5>1. CASE way[n] = ROOT_INODE
          BY <2>1, <2>2, <5>1 DEF May
        <5>2. CASE way[n] # ROOT_INODE
          BY <4>2, <5>2 DEF Onward, IsFirst, IsDir
        <5> QED
          BY <5>1, <5>2
      <4>4. cwd'[c] = way[n] /\ \A x \in Client : x # c => cwd'[x] = cwd[x]
        BY <2>1, <3>3
      <4>5. MayStand(c)'
        BY <3>1, <4>3, <4>4 DEF MayStand, IsDir, May
      <4> QED
        BY <4>4, <4>5
    <3> QED
      BY <3>2, <3>5, <3>6
  <2>7. ASSUME NEW c \in Client,
               \/ \E q \in Query, dir \in BOOLEAN :
                     Make(c, q, dir) \/ MakeFails(c, q, dir) \/ RemoveEntry(c, q, dir)
               \/ \E q \in Query, mode \in Mode : Chmod(c, q, mode)
               \/ \E n \in AccName :
                     NewAccount(c, n) \/ LoginAs(c, n) \/ RemoveAccount(c, n)
        PROVE  Arrives
    <3>1. cwd' = cwd
      BY <2>7 DEF Make, MakeFails, RemoveEntry, Chmod, NewAccount, LoginAs, RemoveAccount
    <3> QED
      BY <3>1
  <2> HIDE DEF Arrives
  <2> QED
    BY <1>1, <2>3, <2>4, <2>5, <2>6, <2>7 DEF Next, Command
<1> HIDE DEF Arrives
<1>2. Spec => [][Arrives]_vars
  <2>1. (TypeOK /\ TreeInv) /\ (TypeOK /\ TreeInv)' /\ [Next]_vars => [Arrives]_vars
    BY <1>1
  <2> QED
    BY <2>1, TreeStays, PTL DEF Spec
<1> QED
  BY <1>2 DEF Arrives, ArrivalsAllowed
=============================================================================
