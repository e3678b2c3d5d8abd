------------------------------ MODULE Requests ------------------------------
(***************************************************************************)
(* How the commands of src/fs/fs.c take a request apart with the helpers   *)
(* of src/utils/buffer.c: arguments at single spaces, cutting a copy of    *)
(* the request in place, and paths at "/".                                 *)
(*                                                                         *)
(* The copy is not terminated: after (what follows it on the heap) is read *)
(* by atoi when a number is the last argument, as it is in chmod and d.    *)
(***************************************************************************)
EXTENDS Integers, Sequences, FiniteSets

CONSTANTS Char, NUL

ASSUME CharAssumption == {" ", "/"} \subseteq Char /\ NUL \notin Char

(* The first place from i on that holds one of the stops, or the end.      *)
End(s, i, stops) ==
    CHOOSE e \in i .. Len(s) + 1 :
        /\ e = Len(s) + 1 \/ s[e] \in stops
        /\ \A j \in i .. e - 1 : s[j] \notin stops

-----------------------------------------------------------------------------
(* What cut_at_n_space works on: a copy of the request, how much of it is  *)
(* left, and where the parts begin that were cut off.                      *)
Copied(request) ==
    [buffer |-> request, left |-> Len(request), starts |-> <<>>, ok |-> TRUE]

NthSpace(s, n) ==
    {i \in 1 .. s.left :
        /\ s.buffer[i] = " "
        /\ Cardinality({j \in 1 .. i : s.buffer[j] = " "}) = n}

Cut_Unterminated(s, n) ==  \* mutant: no '\0' where the request is cut
    LET i == CHOOSE i \in NthSpace(s, n) : TRUE
    IN IF ~s.ok \/ NthSpace(s, n) = {} THEN [s EXCEPT !.ok = FALSE]
       ELSE [s EXCEPT !.left = i - 1, !.starts = <<i + 1>> \o @]

(* cut_at_n_space: what is left ends before the n-th space.                *)
Cut(s, n) ==
    LET i == CHOOSE i \in NthSpace(s, n) : TRUE
    IN IF ~s.ok \/ NthSpace(s, n) = {} THEN [s EXCEPT !.ok = FALSE]
       ELSE [s EXCEPT !.buffer[i] = NUL, !.left = i - 1, !.starts = <<i + 1>> \o @]

(* The characters that atoi is given.                                      *)
Text(memory, start) == SubSeq(memory, start, End(memory, start, {NUL}) - 1)

Arguments(s, after) ==
    LET n == Len(s.starts)
    IN [ok |-> s.ok,
        name |-> SubSeq(s.buffer, 1, s.left),
        text |-> [k \in 1 .. n |-> Text(s.buffer \o after \o <<NUL>>, s.starts[k])],
        data |-> IF n = 0 THEN <<>>
                 ELSE SubSeq(s.buffer, s.starts[n], Len(s.buffer))]

(* <filename> <#len> <data> *)
WriteArguments(request, after) ==
    Arguments(Cut(Cut(Copied(request), 2), 1), after)

(* <filename> <#pos> <#len> <data> *)
InsertArguments(request, after) ==
    Arguments(Cut(Cut(Cut(Copied(request), 3), 2), 1), after)

(* <filename> <#pos> <#len> *)
DeleteArguments(request, after) ==
    Arguments(Cut(Cut(Copied(request), 2), 1), after)

(* <filename> <#mode> *)
ModeArguments(request, after) == Arguments(Cut(Copied(request), 1), after)

-----------------------------------------------------------------------------
Root == <<"/">>

(* buffer_get_first_field of what begins at i: the name up to the next     *)
(* "/", and Root for one that is empty.                                    *)
Field(path, i) ==
    LET e == End(path, i, {"/"}) IN IF e = i THEN Root ELSE SubSeq(path, i, e - 1)

Fields_KeepsDelimiter(path) ==  \* mutant: the next field begins with its "/"
    LET from[i \in 1 .. Len(path) + 2] ==
            LET e == End(path, i, {"/"}) IN
            IF i > Len(path) THEN <<>>
            ELSE <<Field(path, i)>> \o from[IF e = i THEN i + 1 ELSE e]
    IN from[1]

(* The fields that change_dir looks up one after the other; Root where it  *)
(* starts again at the root.                                               *)
Fields(path) ==
    LET from[i \in 1 .. Len(path) + 2] ==
            IF i > Len(path) THEN <<>>
            ELSE <<Field(path, i)>> \o from[End(path, i, {"/"}) + 1]
    IN from[1]
=============================================================================
