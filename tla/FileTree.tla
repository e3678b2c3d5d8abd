------------------------------ MODULE FileTree ------------------------------
(***************************************************************************)
(* Directories, permissions, accounts and the commands on them             *)
(* (src/fs/fs.c), as several clients use them one command at a time        *)
(* (response_mutex of src/fs/FS.c).                                        *)
(*                                                                         *)
(* A directory is the sequence of its entries.  fs_operation_wrapper       *)
(* loads the entries of the client's directory, runs the command on the    *)
(* copy and saves the copy to the same inode, in use or not: a directory   *)
(* may have been removed under a client.  Contents of other files are left *)
(* out, except that passwd is the sequence of accounts (acc).  Every gid   *)
(* in the program is 0, so the group's rights are everybody's.             *)
(*                                                                         *)
(* Some commands lead where nothing can be said, and are not modelled: one *)
(* that removes an entry "." or "..", changes a file's kind by chmod,      *)
(* edits or removes the passwd file, saves a directory of no entries       *)
(* (inode_file_write then writes to some block), or formats the disk while *)
(* a client stands in a directory that the format forgets.                 *)
(***************************************************************************)
EXTENDS Naturals, Sequences, FiniteSets

CONSTANTS
    Client, Inode,
    ROOT_INODE, PASSWD_INODE,
    Name,         \* names of files, the dots among them
    Query,        \* the names that commands are given
    Longest,      \* those of MAX_NAME_LEN characters, one too many to store
    Garbage,      \* the names that memory from malloc may spell
    Prefix,       \* <<q, n>>: name n begins with q and is longer
    Path,         \* what cd is asked for: see Onward
    Mode,         \* what chmod is asked for
    AccName,
    MaxAccounts,  \* bound on the accounts ever created
    NoName

(* The two inodes that the code knows by number are there. *)
ASSUME TreeAssumption ==
    /\ ROOT_INODE \in Inode /\ PASSWD_INODE \in Inode
    /\ ROOT_INODE # PASSWD_INODE
    /\ {".", "..", "home", "passwd"} \cup Query \subseteq Name
    /\ Longest \subseteq Query /\ Garbage \subseteq Name
    /\ MaxAccounts \in Nat \ {0} /\ NoName \notin AccName

VARIABLES
    live,     \* inodes in use
    node,     \* the inode table, with the entries of directories
    lost,     \* inodes in use that no name in the tree leads to
    unset,    \* inodes in use whose entry was saved with its name unset
    cwd,      \* the clients' contexts: cur_inode_id
    uid,      \* and uid
    acc       \* the entries of passwd; uid i is the entry i + 1

tree == <<live, node, lost, unset>>
accounts == <<uid, acc>>
vars == <<tree, cwd, accounts>>

Dots == {".", ".."}

Right == {"r", "w"}
Permissions == SUBSET ({"user", "group", "other"} \X Right)

AllRights == {"user", "group", "other"} \X Right
DefaultRights == {<<"user", "w">>} \cup {"user", "group", "other"} \X {"r"}

ASSUME RequestAssumption ==
    Mode \subseteq Permissions /\ Path \subseteq Seq(Name \cup {"/"})

Entry == [name : Name, id : Inode]
Node == [dir : BOOLEAN, mode : Permissions, uid : 0 .. MaxAccounts - 1,
         entries : Seq(Entry)]

TypeOK ==
    /\ live \subseteq Inode /\ lost \subseteq live /\ unset \subseteq live
    /\ node \in [Inode -> Node]
    /\ cwd \in [Client -> Inode]
    /\ uid \in [Client -> 0 .. MaxAccounts - 1]
    /\ acc \in Seq([name : AccName, valid : BOOLEAN]) /\ Len(acc) <= MaxAccounts

-----------------------------------------------------------------------------
(* What is asked of the entries of a directory.                            *)
Begins(name, q) == name = q \/ <<q, name>> \in Prefix

IsDir(i) == node[i].dir

May(c, i, right) ==
    \/ uid[c] = node[i].uid /\ <<"user", right>> \in node[i].mode
    \/ <<"group", right>> \in node[i].mode
    \/ <<"other", right>> \in node[i].mode

(* The loops over the entries stop at the first that passes their test.    *)
IsFirst(es, k, Test(_)) ==
    k \in DOMAIN es /\ Test(es[k]) /\ \A j \in 1 .. k - 1 : ~Test(es[j])

(* The last entry takes the place of the removed one.                      *)
SwapOut(es, k) ==
    [j \in 1 .. Len(es) - 1 |-> IF j = k THEN es[Len(es)] ELSE es[j]]

-----------------------------------------------------------------------------
(* fs_format: the root, passwd and home, with all rights to the two        *)
(* directories.                                                            *)
Blank == [dir |-> FALSE, mode |-> {}, uid |-> 0, entries |-> <<>>]

Directory(i, up, mode, owner) ==
    [dir |-> TRUE, mode |-> mode, uid |-> owner,
     entries |-> <<[name |-> "..", id |-> up], [name |-> ".", id |-> i]>>]

FormattedTree(home) ==
    [i \in Inode |->
        CASE i = ROOT_INODE ->
               [Directory(i, i, AllRights, 0) EXCEPT !.entries =
                  @ \o <<[name |-> "home", id |-> home],
                         [name |-> "passwd", id |-> PASSWD_INODE]>>]
          [] i = PASSWD_INODE -> [Blank EXCEPT !.mode = DefaultRights]
          [] i = home -> Directory(i, ROOT_INODE, AllRights, 0)
          [] OTHER -> Blank]

(* The server comes with no tree of its own: a fresh disk has none until   *)
(* the first "f", and there is nothing to say before.  The contexts are as *)
(* main has left them.                                                     *)
Init ==
    /\ \E home \in Inode \ {ROOT_INODE, PASSWD_INODE} :
          /\ live = {ROOT_INODE, PASSWD_INODE, home}
          /\ node = FormattedTree(home)
    /\ lost = {} /\ unset = {}
    /\ cwd = [c \in Client |-> ROOT_INODE]
    /\ uid = [c \in Client |-> 0]
    /\ acc = <<>>

(* "f" asks nobody for permission and leaves the contexts as they are.     *)
(* What the inode table holds for inodes not in use is forgotten here.     *)
Format ==
    /\ \E home \in Inode \ {ROOT_INODE, PASSWD_INODE} :
          /\ live' = {ROOT_INODE, PASSWD_INODE, home}
          /\ node' = FormattedTree(home)
          /\ \A c \in Client : cwd[c] \in {ROOT_INODE, home}
    /\ lost' = {} /\ unset' = {} /\ acc' = <<>>
    /\ UNCHANGED <<cwd, uid>>

(* The server is stopped and started: every context begins anew.           *)
Restart ==
    /\ cwd' = [c \in Client |-> ROOT_INODE]
    /\ uid' = [c \in Client |-> 0]
    /\ UNCHANGED <<tree, acc>>

-----------------------------------------------------------------------------
(* fs_operation_wrapper.  A client whose directory has become a file reads *)
(* its bytes as entries, which is left out.                                *)
CanRun(c) == IsDir(cwd[c])

MayRun(c) == CanRun(c) /\ May(c, cwd[c], "w")

(* A command that is refused before it has changed anything is no step.    *)
Save(table, d, es) ==
    /\ es # <<>>
    /\ node' = [table EXCEPT ![d].entries = es]

SaveAsIs(c) == Save(node, cwd[c], node[cwd[c]].entries)

Taken_OtherKind(d, q, dir) ==  \* mutant: the test of the kind is inverted
    \E k \in DOMAIN node[d].entries :
        LET e == node[d].entries[k] IN Begins(e.name, q) /\ IsDir(e.id) # dir

(* mk and mkdir: strncmp stops at the length of the request, so a name     *)
(* that only begins with it counts as the name.                            *)
Taken(d, q, dir) ==
    \E k \in DOMAIN node[d].entries :
        LET e == node[d].entries[k] IN Begins(e.name, q) /\ IsDir(e.id) = dir

NewNode_RootParent(c, i, dir) ==  \* mutant: every new ".." is the root
    IF dir THEN Directory(i, ROOT_INODE, DefaultRights, uid[c])
           ELSE [Blank EXCEPT !.mode = DefaultRights, !.uid = uid[c]]

NewNode(c, i, dir) ==
    IF dir THEN Directory(i, cwd[c], DefaultRights, uid[c])
           ELSE [Blank EXCEPT !.mode = DefaultRights, !.uid = uid[c]]

(* A name of MAX_NAME_LEN characters passes for short enough; but          *)
(* buffer_to_str finds no room for its end and leaves the new entry as     *)
(* malloc has returned it, and nobody looks at the result.                 *)
Stored(q) == IF q \in Longest THEN Garbage ELSE {q}

Make(c, q, dir) ==
    LET d == cwd[c] IN
    /\ MayRun(c) /\ ~Taken(d, q, dir)
    /\ \E i \in Inode \ live, name \in Stored(q) :
          /\ live' = live \cup {i}
          /\ lost' = IF d \in live \ lost THEN lost ELSE lost \cup {i}
          /\ unset' = IF q \in Longest THEN unset \cup {i} ELSE unset
          /\ Save([node EXCEPT ![i] = NewNode(c, i, dir)], d,
                  Append(node[d].entries, [name |-> name, id |-> i]))
    /\ UNCHANGED <<cwd, accounts>>

(* The inode is taken first; then the name is too long or the disk has no  *)
(* room for an entry.                                                      *)
MakeFails(c, q, dir) ==
    /\ MayRun(c) /\ ~Taken(cwd[c], q, dir)
    /\ \E i \in Inode \ live :
          /\ live' = live \cup {i} /\ lost' = lost \cup {i}
          /\ node' = [node EXCEPT ![i] = NewNode(c, i, dir)]
    /\ UNCHANGED <<unset, cwd, accounts>>

Removable_OneMore(e, q, dir) ==  \* mutant: one entry too many allowed
    /\ Begins(e.name, q) /\ IsDir(e.id) = dir
    /\ dir => Len(node[e.id].entries) <= 3

Removable(e, q, dir) ==
    /\ Begins(e.name, q) /\ IsDir(e.id) = dir
    /\ dir => Len(node[e.id].entries) <= 2

(* rm and rmdir: only the first that matches, if there is one and the      *)
(* client may write it.  Nobody looks whether a client is in it.           *)
RemoveEntry(c, q, dir) ==
    LET d == cwd[c]
        es == node[d].entries
    IN
    /\ MayRun(c)
    /\ \E k \in DOMAIN es :
          LET i == es[k].id IN
          /\ IsFirst(es, k, LAMBDA e : Removable(e, q, dir)) /\ May(c, i, "w")
          /\ i # PASSWD_INODE /\ ~(k <= 2 /\ es[k].name \in Dots)
          /\ live' = live \ {i} /\ lost' = lost \ {i} /\ unset' = unset \ {i}
          /\ Save([node EXCEPT ![i].entries = <<>>], d, SwapOut(es, k))
    /\ UNCHANGED <<cwd, accounts>>

-----------------------------------------------------------------------------
Onward_Unchecked(c, from, field, to) ==  \* mutant: no authorize on the way
    LET es == node[from].entries IN
    \/ field = "/" /\ to = ROOT_INODE
    \/ field # "/" /\ \E k \in DOMAIN es :
          /\ IsFirst(es, k, LAMBDA e : e.name = field /\ IsDir(e.id))
          /\ to = es[k].id

(* change_dir with one field of the path; "/" stands for an empty field    *)
(* before the last, which leads to the root.                               *)
Onward(c, from, field, to) ==
    LET es == node[from].entries IN
    \/ field = "/" /\ to = ROOT_INODE
    \/ field # "/" /\ \E k \in DOMAIN es :
          /\ IsFirst(es, k, LAMBDA e : e.name = field /\ IsDir(e.id))
          /\ to = es[k].id /\ May(c, to, "r")

(* The directories on the way of cd, n fields long: the path ends there,   *)
(* the root may not be read, or nothing leads on.                          *)
Ways(c, path, n) ==
    {way \in [0 .. n -> Inode] :
        /\ way[0] = cwd[c]
        /\ \A k \in 1 .. n : Onward(c, way[k - 1], path[k], way[k])
        /\ \A k \in 1 .. n - 1 : May(c, way[k], "r")
        /\ \/ n = Len(path)
           \/ n > 0 /\ ~May(c, way[n], "r")
           \/ \A to \in Inode : ~Onward(c, way[n], path[n + 1], to)}

(* cd stays where its way is over: fs_operation_wrapper has turned the     *)
(* error into an answer, so no caller rolls back.                          *)
Cd(c, path) ==
    /\ CanRun(c)
    /\ \E n \in 0 .. Len(path) : \E way \in Ways(c, path, n) :
          cwd' = [cwd EXCEPT ![c] = way[n]]
    /\ SaveAsIs(c)
    /\ UNCHANGED <<live, lost, unset, accounts>>

-----------------------------------------------------------------------------
(* chmod replaces the whole mode, the bit that says directory included.    *)
Chmod(c, q, mode) ==
    LET es == node[cwd[c]].entries IN
    /\ MayRun(c) /\ q \notin Dots
    /\ \E k \in DOMAIN es :
          LET i == es[k].id IN
          /\ IsFirst(es, k, LAMBDA e : e.name = q) /\ May(c, i, "w")
          /\ Save([node EXCEPT ![i].mode = mode], cwd[c], es)
    /\ UNCHANGED <<live, lost, unset, cwd, accounts>>

-----------------------------------------------------------------------------
Valid(k, n) == acc[k].name = n /\ acc[k].valid

NewAccount_Reuses(c, n) ==  \* mutant: the entry of a removed account is used
    LET free == {k \in DOMAIN acc : ~acc[k].valid} IN
    /\ MayRun(c) /\ ~\E k \in DOMAIN acc : Valid(k, n)
    /\ \/ \E k \in free : acc' = [acc EXCEPT ![k] = [name |-> n, valid |-> TRUE]]
       \/ /\ free = {} /\ Len(acc) < MaxAccounts
          /\ acc' = Append(acc, [name |-> n, valid |-> TRUE])
    /\ SaveAsIs(c)
    /\ UNCHANGED <<live, lost, unset, cwd, uid>>

NewAccount_AsksRemoved(c, n) ==  \* mutant: the test of valid is inverted
    /\ MayRun(c) /\ ~\E k \in DOMAIN acc : acc[k].name = n /\ ~acc[k].valid
    /\ Len(acc) < MaxAccounts
    /\ acc' = Append(acc, [name |-> n, valid |-> TRUE])
    /\ SaveAsIs(c)
    /\ UNCHANGED <<live, lost, unset, cwd, uid>>

(* cacc of a name that is not in use.  The client stays who it was.        *)
NewAccount(c, n) ==
    /\ MayRun(c) /\ ~\E k \in DOMAIN acc : Valid(k, n)
    /\ Len(acc) < MaxAccounts
    /\ acc' = Append(acc, [name |-> n, valid |-> TRUE])
    /\ SaveAsIs(c)
    /\ UNCHANGED <<live, lost, unset, cwd, uid>>

LoginAs_OneBased(c, n) ==  \* mutant: the uid is the number of the entry
    \E k \in DOMAIN acc :
        /\ MayRun(c) /\ Valid(k, n)
        /\ uid' = [uid EXCEPT ![c] = k]
        /\ SaveAsIs(c)
        /\ UNCHANGED <<live, lost, unset, cwd, acc>>

(* cacc with the right password *)
LoginAs(c, n) ==
    \E k \in DOMAIN acc :
        /\ MayRun(c) /\ Valid(k, n)
        /\ uid' = [uid EXCEPT ![c] = k - 1]
        /\ SaveAsIs(c)
        /\ UNCHANGED <<live, lost, unset, cwd, acc>>

(* rmacc with the right password *)
RemoveAccount(c, n) ==
    \E k \in DOMAIN acc :
        /\ MayRun(c) /\ Valid(k, n)
        /\ acc' = [acc EXCEPT ![k].valid = FALSE]
        /\ SaveAsIs(c)
        /\ UNCHANGED <<live, lost, unset, cwd, uid>>

Command(c) ==
    \/ \E q \in Query, dir \in BOOLEAN :
          Make(c, q, dir) \/ MakeFails(c, q, dir) \/ RemoveEntry(c, q, dir)
    \/ \E path \in Path : Cd(c, path)
    \/ \E q \in Query, mode \in Mode : Chmod(c, q, mode)
    \/ \E n \in AccName : NewAccount(c, n) \/ LoginAs(c, n) \/ RemoveAccount(c, n)

Next == Format \/ Restart \/ \E c \in Client : Command(c)

Spec == Init /\ [][Next]_vars

-----------------------------------------------------------------------------
(* The names in the tree: the entries of directories in use, but for the   *)
(* two dots that they begin with.                                          *)
Links ==
    UNION {{<<d, k>> : k \in 3 .. Len(node[d].entries)} :
              d \in {i \in live \ lost : IsDir(i)}}

Target(l) == node[l[1]].entries[l[2]].id

(* Every inode in use has one name, but for the root and for those that a  *)
(* failed mk or mkdir, or one in a removed directory, has lost; and every  *)
(* name leads to an inode in use (fs.c:make_file, make_dir, remove_file,   *)
(* remove_dir).                                                            *)
OneName ==
    /\ \A l \in Links : Target(l) \in live \ (lost \cup {ROOT_INODE})
    /\ \A i \in live \ (lost \cup {ROOT_INODE}) :
          Cardinality({l \in Links : Target(l) = i}) = 1

(* "." is the directory and ".." the one that holds its name, whatever was *)
(* removed and created under the same inode in between (fs.c:make_dir,     *)
(* remove_dir).                                                            *)
DotsLeadBack ==
    \A l \in Links : IsDir(Target(l)) =>
        /\ Len(node[Target(l)].entries) >= 2
        /\ node[Target(l)].entries[1] = [name |-> "..", id |-> l[1]]
        /\ node[Target(l)].entries[2] = [name |-> ".", id |-> Target(l)]

(* The entries that a name of MAX_NAME_LEN characters has left without one *)
Unset(d, k) == k > 2 /\ node[d].entries[k].id \in unset

(* A directory of the tree holds no two files and no two directories of    *)
(* one name, unless one of them was asked for by a name of MAX_NAME_LEN    *)
(* characters and has whatever name malloc's memory spelt (fs.c:make_file, *)
(* make_dir, buffer.c:buffer_to_str).                                      *)
NamesApart ==
    \A d \in live \ lost : IsDir(d) =>
        \A j, k \in DOMAIN node[d].entries :
            LET a == node[d].entries[j]  b == node[d].entries[k] IN
            \/ j = k \/ Unset(d, j) \/ Unset(d, k)
            \/ a.name # b.name \/ IsDir(a.id) # IsDir(b.id)

(* No two valid accounts have one name: cacc and rmacc can tell whom they  *)
(* are asked about (fs.c:change_account, remove_account).                  *)
AccountsApart ==
    \A j, k \in DOMAIN acc :
        acc[j].valid /\ acc[k].valid /\ acc[j].name = acc[k].name => j = k

Owner(c) == IF uid[c] + 1 \in DOMAIN acc THEN acc[uid[c] + 1].name ELSE NoName

(* Nobody becomes somebody else without logging in: the account behind a   *)
(* client's uid is the same, valid or removed, until a format              *)
(* (fs.c:change_account, remove_account).                                  *)
UidsKeepOwner ==
    [][\A c \in Client :
          uid'[c] = uid[c] /\ Owner(c) # NoName /\ acc' # <<>>
              => Owner(c)' = Owner(c)]_vars

MayStand(c) == IsDir(cwd[c]) /\ May(c, cwd[c], "r")

(* A client only ever comes to stand in directories that it may read, also *)
(* where cd gives up half way (fs.c:change_dir).                           *)
ArrivalsAllowed == [][\A c \in Client : cwd'[c] # cwd[c] => MayStand(c)']_vars

-----------------------------------------------------------------------------
(* Why the tree is one: what every name leads to, in removed and lost      *)
(* directories too.                                                        *)
InTree(i) == i \in live \ lost

Named(d, k) ==
    /\ k \in DOMAIN node[d].entries
    /\ k > 2 \/ node[d].entries[k].name \notin Dots

To(d, k) == node[d].entries[k].id

HasDots(d, up) ==
    /\ Len(node[d].entries) >= 2
    /\ node[d].entries[1] = [name |-> "..", id |-> up]
    /\ node[d].entries[2] = [name |-> ".", id |-> d]

(* What the code knows by number stays, and the root stays open to all.    *)
FixedInodes ==
    /\ InTree(ROOT_INODE) /\ InTree(PASSWD_INODE)
    /\ IsDir(ROOT_INODE) /\ node[ROOT_INODE].mode = AllRights
    /\ HasDots(ROOT_INODE, ROOT_INODE)

(* A name leads to an inode in use, and out of the tree exactly when it is *)
(* outside of it.                                                          *)
NamesLead ==
    \A d \in Inode, k \in Nat : Named(d, k) =>
        /\ To(d, k) \in live \ {ROOT_INODE}
        /\ To(d, k) \in lost <=> ~InTree(d)
        /\ InTree(d) => To(d, k) # d

NoTwoNames ==
    \A d, e \in Inode, j, k \in Nat :
        Named(d, j) /\ Named(e, k) /\ To(d, j) = To(e, k) => d = e /\ j = k

AllNamed ==
    \A i \in Inode \ {ROOT_INODE} : InTree(i) =>
        \E d \in Inode, k \in Nat : InTree(d) /\ Named(d, k) /\ To(d, k) = i

TreeShape ==
    /\ \A i \in Inode : InTree(i) /\ ~IsDir(i) => node[i].entries = <<>>
    /\ \A d \in Inode, k \in Nat :
          InTree(d) /\ Named(d, k) /\ IsDir(To(d, k)) => HasDots(To(d, k), d)

TreeInv ==
    /\ FixedInodes /\ NamesLead /\ NoTwoNames /\ AllNamed /\ TreeShape
    /\ NamesApart
=============================================================================
