--------------------------------- MODULE CFile ---------------------------------
(***************************************************************************)
(* src/Code/create_c.c: the conversation in which a client has a C file    *)
(* written, line by line; and the search of src/Code/file_read.c.          *)
(*                                                                         *)
(* A line of the client is a keyword, a number, or a list of words; every  *)
(* other line is "other".  The file is the sequence of the pieces written  *)
(* to it.                                                                  *)
(*                                                                         *)
(* One conversation is followed; the others, in threads of their own, do   *)
(* to the data they share what they do.  The name of a variable is the     *)
(* value of a character that is static: it counts on from one conversation *)
(* to the next, eight bits wide (CHARS), the letters end before that       *)
(* (LETTERS), and nobody locks it.  strtok() goes on where it stood last,  *)
(* in whichever thread's line that was.                                    *)
(***************************************************************************)
EXTENDS Integers, Sequences

CONSTANTS
  Me, Others,                  \* the conversation that is followed, and the other threads
  LIBRARY_TXT, COMMANDS_TXT,   \* the texts searched, as sequences
  LibraryWords, SearchWords,   \* what a client may ask for
  NoToken,                     \* what strtok() returns at the end of a line
  MAX_WORDS,                   \* bound on the words of a line
  MAX_VARIABLES,               \* bound on the variables of one declaration
  MAX_PIECES,                  \* bound on a file
  MAX_DECLARED,                \* bound on the variables of all files
  LETTERS, CHARS

ASSUME CFileAssumption ==
  /\ LETTERS \in Nat /\ CHARS \in Nat /\ LETTERS < CHARS
  /\ Me \notin Others

\* A text is a sequence of characters.
ASSUME TextAssumption ==
  /\ LIBRARY_TXT \in Seq(STRING) /\ COMMANDS_TXT \in Seq(STRING)
  /\ LibraryWords \subseteq Seq(STRING) /\ SearchWords \subseteq Seq(STRING)

Conversations == Others \cup {Me}

VARIABLES
  talk_at,      \* what create_c() waits for or does next, or "idle"
  token,        \* p_strtok
  words,        \* the tokens that follow in our line
  strtok_here,  \* strtok() stands in our line
  unnamed,         \* total_v - vari_l + 1: the variables of a declaration still to be named
  file,         \* what was written
  c_name,       \* static char c
  loaded,       \* what each thread read of it for c++, or NotLoaded
  incremented,  \* history: how often c++ was done in the life of the server
  overwritten,  \* history: a c++ has undone another, done since the variable was read
  search        \* the last search of read_content(): the word, and whether it was found

ownVars == <<talk_at, token, words, unnamed, file>>
counterVars == <<c_name, loaded, incremented, overwritten>>
fileVars == <<ownVars, strtok_here, counterVars, search>>

NotLoaded == -1
NoSearch == [word |-> <<>>, found |-> FALSE]

FileInit ==
  /\ talk_at = "idle" /\ unnamed = 0
  /\ token = NoToken /\ words = <<>> /\ file = <<>>
  /\ strtok_here = FALSE
  /\ c_name = 0 /\ incremented = 0 /\ overwritten = FALSE
  /\ loaded = [t \in Conversations |-> NotLoaded]
  /\ search = NoSearch

-----------------------------------------------------------------------------
\* check_string(): p_buff moves on with each character that fits, and stays with
\* the others.
check_string(buff) ==
  LET fits[n \in 0 .. Len(LIBRARY_TXT)] ==
        IF n = 0 THEN 0
        ELSE IF fits[n - 1] < Len(buff) /\ buff[fits[n - 1] + 1] = LIBRARY_TXT[n]
        THEN fits[n - 1] + 1 ELSE fits[n - 1]
  IN  fits[Len(LIBRARY_TXT)] = Len(buff)

\* read_content()'s search begins the word again at a character that does not
\* fit, and does not look at that character again.  It compares the number of
\* characters that fit when one does: an empty word is never found.
WordFound(word) ==
  LET fits[n \in 0 .. Len(COMMANDS_TXT)] ==
        IF n = 0 THEN 0
        ELSE IF fits[n - 1] = Len(word) THEN Len(word)
        ELSE IF word[fits[n - 1] + 1] = COMMANDS_TXT[n] THEN fits[n - 1] + 1 ELSE 0
  IN  word # <<>> /\ fits[Len(COMMANDS_TXT)] = Len(word)

read_content(word) ==
  /\ talk_at = "idle"
  /\ search' = [word |-> word, found |-> WordFound(word)]
  /\ UNCHANGED <<ownVars, strtok_here, counterVars>>

-----------------------------------------------------------------------------
Goto(from, to) ==
  /\ talk_at = from
  /\ talk_at' = to

fwrite(pieces) ==
  /\ Len(file) + Len(pieces) <= MAX_PIECES
  /\ file' = file \o pieces

\* fopen(filename, "w+")
create_c ==
  /\ Goto("idle", "library")
  /\ file' = <<>> /\ words' = <<>> /\ token' = NoToken
  /\ search' = NoSearch
  /\ UNCHANGED <<unnamed, strtok_here, counterVars>>

\* A line that is not the keyword waited for brings the question again.
Other ==
  /\ talk_at \in {"library", "section", "variable"}
  /\ UNCHANGED fileVars

Keyword ==
  /\ Goto("library", "names")
  /\ UNCHANGED <<token, words, unnamed, file, strtok_here, counterVars, search>>

\* strtok(buffer, delim): a line of words, and the first of them.
NamesLine ==
  /\ Goto("names", "check")
  /\ \E n \in 0 .. MAX_WORDS : \E line \in [1 .. n -> LibraryWords] :
       /\ token' = IF n = 0 THEN NoToken ELSE line[1]
       /\ words' = IF n = 0 THEN <<>> ELSE Tail(line)
  /\ strtok_here' = TRUE
  /\ UNCHANGED <<unnamed, file, counterVars, search>>

\* strtok(NULL, delim): the next word of our line, or what another thread's has or
\* had where strtok() stands.
NextToken ==
  /\ IF strtok_here
     THEN /\ token' = IF words = <<>> THEN NoToken ELSE Head(words)
          /\ words' = IF words = <<>> THEN <<>> ELSE Tail(words)
     ELSE /\ token' \in LibraryWords \cup {<<>>, NoToken}
          /\ UNCHANGED words
  /\ UNCHANGED strtok_here

\* Nothing is read of a line after its last word, nor after one that fails.
LineDone ==
  /\ token' = NoToken /\ words' = <<>>
  /\ strtok_here' = FALSE

\* The loop over the tokens.  check_string() says yes where it cannot open its file.
CheckNext ==
  /\ talk_at = "check"
  /\ \E opens \in BOOLEAN :
       \/ /\ token # NoToken /\ (opens => check_string(token))
          /\ fwrite(<<[piece |-> "include"]>>)
          /\ NextToken /\ UNCHANGED talk_at
       \/ /\ token # NoToken /\ opens /\ ~check_string(token)
          /\ LineDone /\ talk_at' = "change"
          /\ UNCHANGED file
       \/ /\ token = NoToken
          /\ LineDone /\ talk_at' = "section"
          /\ UNCHANGED file
  /\ UNCHANGED <<unnamed, counterVars, search>>

\* "Do you want to change it": y, or nothing more is added.
Change ==
  /\ talk_at = "change"
  /\ talk_at' \in {"names", "section"}
  /\ UNCHANGED <<token, words, unnamed, file, strtok_here, counterVars, search>>

Macro ==
  /\ Goto("section", "macro")
  /\ fwrite(<<[piece |-> "define"]>>)
  /\ UNCHANGED <<token, words, unnamed, strtok_here, counterVars, search>>

MacroText ==
  /\ Goto("macro", "variable")
  /\ fwrite(<<[piece |-> "text"], [piece |-> "main"]>>)
  /\ UNCHANGED <<token, words, unnamed, strtok_here, counterVars, search>>

\* "variable" where a macro may come: the line is not read again.
NoMacro ==
  /\ Goto("section", "kind")
  /\ fwrite(<<[piece |-> "main"]>>)
  /\ UNCHANGED <<token, words, unnamed, strtok_here, counterVars, search>>

Variable ==
  /\ Goto("variable", "kind")
  /\ UNCHANGED <<token, words, unnamed, file, strtok_here, counterVars, search>>

\* 1 to 3; anything else but 4 is asked for again.
Kind ==
  /\ talk_at = "kind"
  /\ talk_at' \in {"count", "kind"}
  /\ UNCHANGED <<token, words, unnamed, file, strtok_here, counterVars, search>>

\* total_v names; zero is asked for again, a negative number and one that was
\* never set declare what the loop makes of them.
Count(total_v) ==
  /\ talk_at = "count"
  /\ IF total_v = 0
     THEN UNCHANGED <<talk_at, file, unnamed>>
     ELSE /\ fwrite(<<[piece |-> "declare"]>>)
          /\ unnamed' = IF total_v < 0 THEN 0 ELSE total_v
          /\ talk_at' = IF total_v < 0 THEN "kind" ELSE "name"
  /\ UNCHANGED <<token, words, strtok_here, counterVars, search>>

\* c++ by any thread: the variable is read, and written.
Load(t) ==
  /\ loaded[t] = NotLoaded
  /\ loaded' = [loaded EXCEPT ![t] = c_name]
  /\ UNCHANGED <<c_name, incremented, overwritten>>

\* Mutant of Store: the old value is written back.
MutStore(t) ==
  /\ loaded[t] # NotLoaded /\ incremented < MAX_DECLARED
  /\ c_name' = loaded[t]
  /\ loaded' = [loaded EXCEPT ![t] = NotLoaded]
  /\ incremented' = incremented + 1
  /\ overwritten' = (overwritten \/ loaded[t] # c_name)

Store(t) ==
  /\ loaded[t] # NotLoaded /\ incremented < MAX_DECLARED
  /\ c_name' = (loaded[t] + 1) % CHARS
  /\ loaded' = [loaded EXCEPT ![t] = NotLoaded]
  /\ incremented' = incremented + 1
  /\ overwritten' = (overwritten \/ loaded[t] # c_name)

\* The loop of a declaration: fwrite(&c,1, 1, fd), and c++.
Name ==
  /\ Goto("name", "load")
  /\ fwrite(<<[piece |-> "name", of |-> c_name]>>)
  /\ UNCHANGED <<token, words, unnamed, strtok_here, counterVars, search>>

LoadName ==
  /\ Goto("load", "store") /\ Load(Me)
  /\ UNCHANGED <<token, words, unnamed, file, strtok_here, search>>

StoreName ==
  /\ Goto("store", IF unnamed = 1 THEN "kind" ELSE "name") /\ Store(Me)
  /\ unnamed' = unnamed - 1
  /\ UNCHANGED <<token, words, file, strtok_here, search>>

\* 4: the end of main(), fclose(), "Anything else", and the return whatever the
\* client says to it.
Finish ==
  /\ Goto("kind", "idle")
  /\ fwrite(<<[piece |-> "end"]>>)
  /\ UNCHANGED <<token, words, unnamed, strtok_here, counterVars, search>>

-----------------------------------------------------------------------------
\* The other threads: their declarations, and their calls of strtok(), with a line
\* of theirs or for the next word of whichever line it stands in.
OtherNames(t) ==
  /\ Load(t) \/ Store(t)
  /\ UNCHANGED <<ownVars, strtok_here, search>>

OtherLine ==
  /\ Others # {} /\ strtok_here
  /\ strtok_here' = FALSE /\ words' = <<>>
  /\ UNCHANGED <<talk_at, token, unnamed, file, counterVars, search>>

OtherToken ==
  /\ Others # {} /\ strtok_here /\ words # <<>>
  /\ words' = Tail(words)
  /\ UNCHANGED <<talk_at, token, unnamed, file, strtok_here, counterVars, search>>

FileNext ==
  \/ \E word \in SearchWords : read_content(word)
  \/ create_c \/ Other \/ Keyword \/ NamesLine \/ CheckNext \/ Change \/ Macro \/ MacroText
  \/ NoMacro \/ Variable \/ Kind \/ Name \/ LoadName \/ StoreName \/ Finish
  \/ \E total_v \in -1 .. MAX_VARIABLES : Count(total_v)
  \/ \E t \in Others : OtherNames(t)
  \/ OtherLine \/ OtherToken

FileSpec == FileInit /\ [][FileNext]_fileVars

-----------------------------------------------------------------------------
Pieces(kind) == {k \in 1 .. Len(file) : file[k].piece = kind}

\* A file that was ended is a program, whatever the other threads do: includes and
\* macro stand before main, there is one main, and the name of a variable is a
\* letter unless more variables than letters were declared since the server
\* started.  No two variables have one name unless one c++ has undone another or
\* the names have come round.
EndedFileIsProgram ==
  talk_at = "idle" /\ file # <<>> =>
    /\ \A k \in Pieces("include"), l \in Pieces("main") : k < l
    /\ \A k \in Pieces("define"), l \in Pieces("main") : l = k + 2
    /\ \A k, l \in Pieces("main") : k = l
    /\ incremented <= LETTERS => \A k \in Pieces("name") : file[k].of < LETTERS
    /\ ~overwritten /\ incremented <= CHARS =>
         \A k, l \in Pieces("name") : k # l => file[k].of # file[l].of

\* A word that is reported as found is in the text.
FoundIsThere ==
  search.found =>
    \E k \in 0 .. Len(COMMANDS_TXT) - Len(search.word) :
      \A i \in 1 .. Len(search.word) : COMMANDS_TXT[k + i] = search.word[i]

\* Both: what is written is a program, and what is found is there.
WritesAndFindsRightly == EndedFileIsProgram /\ FoundIsThere

=============================================================================
