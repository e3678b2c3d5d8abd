------------------------------- MODULE Session -------------------------------
(***************************************************************************)
(* One client edits one file: it puts a request together, the server takes *)
(* it apart (Requests) and edits the file (FileEdit).  The client fills in *)
(* its words as it likes, so numbers may be missing or not be true.        *)
(* Requests to chmod and cd leave the bytes of the file alone.             *)
(***************************************************************************)
EXTENDS FileEdit, Requests, SequencesExt

CONSTANTS
    Digit,     \* characters that are digits, and what they stand for
    FileName,  \* the name of the file
    MaxWord,   \* bounds on the characters of a word,
    MaxData,   \* on those of the data,
    MaxFields  \* and on the fields of a path

ASSUME SessionAssumption ==
    /\ Char \subseteq Byte
    /\ Digit \in [DOMAIN Digit -> Nat] /\ DOMAIN Digit \subseteq Char \ {" ", "/"}
    /\ MaxWord \in Nat /\ MaxFields \in Nat /\ MaxData \in 0 .. MaxSize

VARIABLE request  \* what the client put together, and what follows on the heap

vars == <<fileVars, request>>

Word == BoundedSeq(DOMAIN Digit, MaxWord)
Data == BoundedSeq(Char, MaxData)
Chain == BoundedSeq(Word, MaxFields) \ {<<>>}

NoRequest == [cmd |-> "none"]

Joined(words, between) ==
    LET upto[k \in 1 .. Len(words)] ==
            IF k = 1 THEN words[1] ELSE upto[k - 1] \o between \o words[k]
    IN upto[Len(words)]

Spaced(words) == Joined(words, <<" ">>)
Slashed(fields) == Joined(fields, <<"/">>)

Init == FileInit /\ request = NoRequest

Send(cmd, words) ==
    /\ request = NoRequest /\ edit = Idle
    /\ \E after \in Word :
          request' = [cmd |-> cmd, words |-> words, after |-> after]
    /\ UNCHANGED fileVars

-----------------------------------------------------------------------------
(* atoi: the digits that the text begins with.                             *)
Number(text) ==
    LET digits == End(text, 1, (Char \cup {NUL}) \ DOMAIN Digit) - 1
        value[k \in 0 .. digits] ==
            IF k = 0 THEN 0 ELSE 10 * value[k - 1] + Digit[text[k]]
    IN value[digits]

AsFile(data) ==
    [size |-> Len(data), byte |-> [i \in 0 .. Len(data) - 1 |-> data[i + 1]]]

Sent == Spaced(request.words)

(* The call that a request leads to; none if it is refused.                *)
write_file ==
    LET a == WriteArguments(Sent, request.after) IN
    /\ request.cmd = "w"
    /\ a.ok /\ Number(a.text[1]) = Len(a.data) /\ a.name = FileName
    /\ CallKernel([op |-> "w", data |-> AsFile(a.data)])

insert_file ==
    LET a == InsertArguments(Sent, request.after) IN
    /\ request.cmd = "i"
    /\ a.ok /\ Number(a.text[2]) = Len(a.data) /\ a.name = FileName
    /\ CallKernel([op |-> "i", pos |-> Number(a.text[1]), data |-> AsFile(a.data)])

delete_in_file ==
    LET a == DeleteArguments(Sent, request.after) IN
    /\ request.cmd = "d"
    /\ a.ok /\ a.name = FileName
    /\ CallKernel([op |-> "d", pos |-> Number(a.text[1]), len |-> Number(a.text[2])])

Parse == (write_file \/ insert_file \/ delete_in_file) /\ request' = NoRequest

(* Any request may also be refused, or meet no file.                       *)
Refuse ==
    /\ request # NoRequest
    /\ request' = NoRequest
    /\ UNCHANGED fileVars

Next ==
    \/ \E name, a, b \in Word, data \in Data :
          \/ Send("w", <<name, a, data>>) \/ Send("i", <<name, a, b, data>>)
          \/ Send("d", <<name, a, b>>) \/ Send("chmod", <<name, a>>)
    \/ \E path \in Chain : Send("cd", path)
    \/ Parse \/ Refuse
    \/ Kernel /\ UNCHANGED request

Spec == Init /\ [][Next]_vars

-----------------------------------------------------------------------------
(* What a client puts into a request the commands take out of it, with all *)
(* the spaces that the data hold and whatever lies behind the copy; but    *)
(* the last number of d and chmod runs on into what lies there             *)
(* (buffer.c:cut_at_n_space, fs.c:write_file, insert_file, delete_in_file, *)
(* chmod_file).                                                            *)
RequestsReadBack ==
    LET words == request.words
        after == request.after
        Reads(arguments, name, text, data) ==
            /\ arguments.ok /\ arguments.name = name
            /\ arguments.text = text /\ arguments.data = data
    IN CASE request.cmd = "w" ->
              LET a == WriteArguments(Sent, after) IN
              a.ok /\ a.name = words[1] /\ a.text[1] = words[2] /\ a.data = words[3]
         [] request.cmd = "i" ->
              LET a == InsertArguments(Sent, after) IN
              /\ a.ok /\ a.name = words[1]
              /\ a.text[1] = words[2] /\ a.text[2] = words[3] /\ a.data = words[4]
         [] request.cmd = "d" ->
              Reads(DeleteArguments(Sent, after), words[1],
                    <<words[2], words[3] \o after>>, words[3])
         [] request.cmd = "chmod" ->
              Reads(ModeArguments(Sent, after), words[1],
                    <<words[2] \o after>>, words[2])
         [] OTHER -> TRUE

(* cd walks a path field by field, from the root if it begins with "/";    *)
(* a "/" at its end changes nothing, as the comment in fs.c:337 has it,    *)
(* and an empty field before the last leads back to the root               *)
(* (buffer.c:buffer_get_first_field, fs.c:change_dir).                     *)
PathsFieldByField ==
    request.cmd = "cd" =>
        LET words == request.words
            walked == [k \in DOMAIN words |-> IF words[k] = <<>> THEN Root ELSE words[k]]
        IN Fields(Slashed(words)) =
             IF Last(words) = <<>> THEN Front(walked) ELSE walked
=============================================================================
