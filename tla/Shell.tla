------------------------------- MODULE Shell -------------------------------
(***************************************************************************)
(* The interactive shell: the loop of repl::run, process_command, and the  *)
(* helpers that take a line apart. A line is its leading word and a text   *)
(* of arguments, of which only braces, the quotes of strings and white     *)
(* space, which stands for all other text, are told apart.                 *)
(***************************************************************************)
EXTENDS Integers, Sequences, FiniteSetsExt

CONSTANT MaxArgs  \* bound of the length of the arguments

ASSUME ShellAssumption == MaxArgs \in Nat

OpenChar == "{"
CloseChar == "}"
Quote == "quote"
Chars == {OpenChar, CloseChar, Quote, " "}
Text == UNION {[1..n -> Chars] : n \in 0..MaxArgs}

-----------------------------------------------------------------------------
(* Helpers                                                                 *)

(* trim.                                                                    *)
Trim(s) == LET solid == {i \in DOMAIN s : s[i] # " "}
           IN  IF solid = {} THEN <<>> ELSE SubSeq(s, Min(solid), Max(solid))

(* The counter of find_matching_brace after it has read s[from..to].        *)
Balance(s, from, to) == Cardinality({i \in from..to : s[i] = OpenChar})
                          - Cardinality({i \in from..to : s[i] = CloseChar})

\* Variant: the nesting is not counted.
FirstClosingBrace(s, start) ==
    LET ends == {i \in start..Len(s) : s[i] = CloseChar}
    IN  IF ends = {} THEN 0 ELSE Min(ends)

(* find_matching_brace: 0 for npos. Braces inside strings count like others.*)
FindMatchingBrace(s, start) ==
    LET ends == {i \in start..Len(s) : s[i] = CloseChar /\ Balance(s, start, i) = 0}
    IN  IF ends = {} THEN 0 ELSE Min(ends)

-----------------------------------------------------------------------------
(* process_command                                                         *)

NoRequest == [action |-> "none", first |-> <<>>, second |-> <<>>]
Request(action, first, second) == [action |-> action, first |-> first, second |-> second]

(* find: a query that does not start with an object, or whose object does   *)
(* not end, is replaced by the query that matches everything.               *)
FindRequest(a) ==
    LET end == FindMatchingBrace(a, 1)
    IN  Request("find", IF a # <<>> /\ Head(a) = OpenChar /\ end # 0 THEN SubSeq(a, 1, end)
                        ELSE <<OpenChar, CloseChar>>, <<>>)

(* update: the query runs from the beginning of the arguments, the update   *)
(* from the next opening brace; each of three errors sends nothing.         *)
UpdateRequest(a) ==
    LET end == FindMatchingBrace(a, 1)
        starts == {i \in (end + 1)..Len(a) : a[i] = OpenChar}
        start == Min(starts)
        last == FindMatchingBrace(a, start)
    IN  IF end = 0 \/ starts = {} THEN NoRequest
        ELSE IF last = 0 THEN NoRequest
        ELSE Request("update", SubSeq(a, 1, end), SubSeq(a, start, last))

(* The request for a command; the other operations get the text as it is.   *)
ProcessCommand(l) ==
    LET a == Trim(l.args)
    IN  CASE l.word = "find" -> FindRequest(a)
          [] l.word = "update" -> UpdateRequest(a)
          [] l.word \in {"insert", "count", "delete", "set_schema"} -> Request(l.word, a, <<>>)
          [] l.word \in {"/metrics", "create_user"} -> Request(l.word, <<>>, <<>>)
          [] OTHER -> NoRequest

Operations == {"find", "update", "insert", "count", "delete", "set_schema"}
Words == {"", "blank", "exit", "help", "clear", "/health", "/metrics", "create_user",
          "create_user?", "malformed", "unknown"}
Taken == {"find", "update"}  \* the operations whose arguments are taken apart
Lines == [word : Taken, args : Text]
           \cup [word : Operations \ Taken, args : {<<>>, <<OpenChar, CloseChar>>}]
           \cup [word : Words, args : {<<>>}]
NoLine == [word |-> "", args |-> <<>>]

-----------------------------------------------------------------------------
(* repl::run                                                               *)

VARIABLES
    repl,   \* the next step of the loop
    line,   \* line, which linenoise has allocated
    asked   \* the request that is waiting for its response

shellVars == <<repl, line, asked>>

ShellInit == repl = "prompt" /\ line = NoLine /\ asked = NoRequest

ReadLine == /\ repl = "prompt"
            /\ line' \in Lines /\ repl' = "line"
            /\ UNCHANGED asked

EndOfInput == /\ repl = "prompt" /\ repl' = "done"
              /\ UNCHANGED <<line, asked>>

FreeLine == line' = NoLine

(* Empty and blank lines, exit or quit, help and clear.                     *)
Control ==
    /\ repl = "line" /\ line.word \in {"", "blank", "exit", "help", "clear"}
    /\ repl' = IF line.word = "exit" THEN "done" ELSE "prompt"
    /\ FreeLine
    /\ UNCHANGED asked

(* process_command up to the request.                                       *)
Command ==
    /\ repl = "line" /\ line.word \notin {"", "blank", "exit", "help", "clear"}
    /\ asked' = ProcessCommand(line)
    /\ IF asked' = NoRequest THEN repl' = "prompt" /\ FreeLine
       ELSE repl' = "answer" /\ UNCHANGED line

(* The response is printed, whatever it is: process_command catches what    *)
(* the parser throws.                                                       *)
Answer == /\ repl = "answer" /\ repl' = "prompt"
          /\ asked' = NoRequest /\ FreeLine

ShellNext == ReadLine \/ EndOfInput \/ Control \/ Command \/ Answer

ShellSpec == ShellInit /\ [][ShellNext]_shellVars

-----------------------------------------------------------------------------
(* The reference: a JSON object ends where its first brace is closed, and a *)
(* brace inside a string is a character like any other. (Escaped quotes are *)
(* left out.)                                                               *)
InString(s, i) == Cardinality({k \in 1..i - 1 : s[k] = Quote}) % 2 = 1

Depth(s, to) == Cardinality({i \in 1..to : s[i] = OpenChar /\ ~InString(s, i)})
                  - Cardinality({i \in 1..to : s[i] = CloseChar /\ ~InString(s, i)})

IsObject(s) == /\ s # <<>> /\ Head(s) = OpenChar
               /\ \A i \in 1..Len(s) - 1 : Depth(s, i) > 0
               /\ Depth(s, Len(s)) = 0

(* No string of s holds a brace. find_matching_brace is made for such text: *)
(* it counts the braces in strings too and may end an object at one.        *)
PlainStrings(s) == \A i \in DOMAIN s : s[i] \in {OpenChar, CloseChar} => ~InString(s, i)

(* process_command sends what was typed: an object given to find, and the   *)
(* two objects given to update, arrive whole and apart, with any nesting    *)
(* and anything but braces between them, if no string in them holds a       *)
(* brace. No update is sent unless its second part is an object, or has a   *)
(* brace in a string, and its first part ends where its braces balance.     *)
RequestAsTyped ==
    repl = "answer" =>
      LET a == Trim(line.args)
      IN  /\ line.word = "find" /\ IsObject(a) /\ PlainStrings(a) => asked.first = a
          /\ line.word = "update" =>
               /\ \A i, j \in DOMAIN a :
                    LET query == SubSeq(a, 1, i)
                        update == SubSeq(a, j, Len(a))
                    IN  /\ i < j
                        /\ IsObject(query) /\ PlainStrings(query)
                        /\ IsObject(update) /\ PlainStrings(update)
                        /\ \A k \in i + 1..j - 1 : a[k] \notin {OpenChar, CloseChar}
                        => asked.first = query /\ asked.second = update
               /\ PlainStrings(asked.second) => IsObject(asked.second)
               /\ Balance(asked.first, 1, Len(asked.first)) = 0

(* The inductive invariant: what is asked for is what process_command made  *)
(* of the line.                                                             *)
ShellInv ==
    /\ repl \in {"line", "answer"} => line \in Lines
    /\ repl = "answer" => asked = ProcessCommand(line) /\ asked # NoRequest
=============================================================================
