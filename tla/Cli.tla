---------------------------------- MODULE Cli ----------------------------------
(***************************************************************************)
(* src/Commad_line/cli.c: commands and groups of commands, found by number *)
(* or by name, and the help that follows a path of them.                   *)
(*                                                                         *)
(* The registration of groups is not in the repository: the tree is chosen *)
(* once.  A word is a sequence of bytes, cut to as many letters as tell it *)
(* from the others.  Command_Help() takes 0, the success of                *)
(* pthread_mutex_lock(), for a failure: the help is displayed only if the  *)
(* mutex could not be taken, and is kept if it could.                      *)
(***************************************************************************)
EXTENDS Integers, Sequences

CONSTANTS
  ROOT, Groups, NoGroup,   \* the root group, the groups below it, NULL
  CommandWords,            \* names of the commands of a group
  GroupWords,              \* [Groups -> words]: Group_String
  MAX_SUBGROUPS, MAX_COMMANDS,   \* bounds of the lists of a group
  TypedWords, TypedNumbers,
  LockMayFail              \* whether pthread_mutex_lock() may return an error

\* A word is a string of C: no byte of it is 0.
Word == Seq(1 .. 255)

ASSUME CliAssumption ==
  /\ ROOT \notin Groups /\ NoGroup \notin Groups \cup {ROOT}
  /\ CommandWords \subseteq Word /\ GroupWords \in [Groups -> Word]
  /\ TypedWords \subseteq Word /\ TypedNumbers \subseteq Int
  /\ MAX_SUBGROUPS \in Nat /\ MAX_COMMANDS \in Nat

COMMAND_START_INDEX == 0

\* Ver, Help, Exit, Reset; Ver, Help, Up, Root, Reset.
Root_Command_List == << <<86>>, <<72>>, <<69>>, <<82, 101>> >>
Common_Command_List == << <<86>>, <<72>>, <<85>>, <<82, 111>>, <<82, 101>> >>

VARIABLES
  commands,    \* Command_List of each group, empty where there is none
  subgroups,   \* Subgroup_List of each group, in order
  cli_mutex,   \* whether QCLI_Context.CLI_Mutex is held
  cli_asleep,  \* somebody waits for it
  helped       \* the last call of Display_Help(), its parameters and its value

cliVars == <<commands, subgroups, cli_mutex, cli_asleep, helped>>

AllGroups == Groups \cup {ROOT}
NotHelped == [group |-> NoGroup, params |-> <<>>, result |-> 0]

ListsOf(S, max) == UNION {[1 .. n -> S] : n \in 0 .. max}
ListPlaces == 1 .. MAX_SUBGROUPS

\* Where group h stands in the lists of the others.
PlacesOf(h) ==
  {p \in AllGroups \X ListPlaces : p[2] <= Len(subgroups[p[1]]) /\ subgroups[p[1]][p[2]] = h}

\* Every tree in which a group has one parent: the root leads to every group.
CliInit ==
  /\ subgroups \in [AllGroups -> ListsOf(Groups, MAX_SUBGROUPS)]
  /\ \A h \in Groups : \E p \in AllGroups \X ListPlaces : PlacesOf(h) = {p}
  /\ \A S \in SUBSET Groups :
       S # {} => \E h \in S : \E p \in (AllGroups \ S) \X ListPlaces : PlacesOf(h) = {p}
  /\ commands \in [AllGroups -> ListsOf(CommandWords, MAX_COMMANDS)]
  /\ cli_mutex = FALSE /\ cli_asleep = FALSE
  /\ helped = NotHelped

-----------------------------------------------------------------------------
Upper(byte) == IF byte \in 97 .. 122 THEN byte - 32 ELSE byte
Byte(s, i) == IF i <= Len(s) THEN Upper(s[i]) ELSE 0

Memcmpi(s1, s2, size) ==
  LET apart == {i \in 1 .. size : Byte(s1, i) # Byte(s2, i)}
      first == CHOOSE i \in apart : \A j \in apart : i <= j
  IN  IF apart = {} THEN 0 ELSE IF Byte(s1, first) < Byte(s2, first) THEN -1 ELSE 1

CommandList(g) == IF g = ROOT THEN Root_Command_List ELSE Common_Command_List

\* What Find_Command() may find: a list of the group and a place in it.
Entry(from, at) == [list |-> from, at |-> at]
NotFound == Entry("none", 0)

\* Mutant of FindNumber: the group's commands are not counted off.
MutFindNumber(g, number) ==
  LET index == number - COMMAND_START_INDEX
      in_group == index - Len(CommandList(g))
  IN  IF index < 0 THEN NotFound
      ELSE IF index < Len(CommandList(g)) THEN Entry("common", index + 1)
      ELSE IF in_group < Len(commands[g]) THEN Entry("command", in_group + 1)
      ELSE IF in_group < Len(subgroups[g]) THEN Entry("group", in_group + 1)
      ELSE NotFound

FindNumber(g, number) ==
  LET index == number - COMMAND_START_INDEX
      in_group == index - Len(CommandList(g))
      in_subgroups == in_group - Len(commands[g])
  IN  IF index < 0 THEN NotFound
      ELSE IF index < Len(CommandList(g)) THEN Entry("common", index + 1)
      ELSE IF in_group < Len(commands[g]) THEN Entry("command", in_group + 1)
      ELSE IF in_subgroups < Len(subgroups[g]) THEN Entry("group", in_subgroups + 1)
      ELSE NotFound

\* The first place of a list of names that Memcmpi() takes for this word, or 0.
PlaceOf(word, names) ==
  LET same == {i \in 1 .. Len(names) : Memcmpi(word, names[i], Len(word) + 1) = 0}
  IN  IF same = {} THEN 0 ELSE CHOOSE i \in same : \A j \in same : i <= j

SubgroupNames(g) == [i \in 1 .. Len(subgroups[g]) |-> GroupWords[subgroups[g][i]]]

FindName(g, word) ==
  LET common == PlaceOf(word, CommandList(g))
      command == PlaceOf(word, commands[g])
      group == PlaceOf(word, SubgroupNames(g))
  IN  IF common # 0 THEN Entry("common", common)
      ELSE IF command # 0 THEN Entry("command", command)
      ELSE IF group # 0 THEN Entry("group", group)
      ELSE NotFound

\* A parameter is a number, or a word that is none.
Parameters == [number : TypedNumbers] \cup [word : TypedWords]

Find_Command(g, p) ==
  IF g = NoGroup THEN NotFound
  ELSE IF "number" \in DOMAIN p THEN FindNumber(g, p.number) ELSE FindName(g, p.word)

\* From the n-th parameter on, in group g; then all of them.
Display_Help(group, ps) ==
  LET help[n \in 1 .. Len(ps) + 1] == [g \in AllGroups \cup {NoGroup} |->
        IF n > Len(ps) THEN 0
        ELSE LET found == Find_Command(g, ps[n]) IN
             IF found = NotFound THEN 1
             ELSE IF found.list = "group"
             THEN LET below == help[n + 1][subgroups[g][found.at]]
                  IN  IF below > 0 THEN below + 1 ELSE 0
             ELSE IF n = Len(ps) THEN 0 ELSE 2]
  IN  help[1][group]

Command_Help(g, ps) ==
  /\ ~cli_asleep
  /\ helped = NotHelped   \* bound: what one call displays does not change the next
  /\ \/ /\ LockMayFail
        /\ helped' = [group |-> g, params |-> ps, result |-> Display_Help(g, ps)]
        /\ cli_mutex' = FALSE
        /\ UNCHANGED cli_asleep
     \/ /\ ~cli_mutex
        /\ cli_mutex' = TRUE   \* and QCLI_STATUS_ERROR_E
        /\ helped' = NotHelped
        /\ UNCHANGED cli_asleep
     \/ /\ cli_mutex
        /\ cli_asleep' = TRUE
        /\ helped' = NotHelped
        /\ UNCHANGED cli_mutex
  /\ UNCHANGED <<commands, subgroups>>

CliNext ==
  \E g \in AllGroups \cup {NoGroup}, n \in 0 .. 2 :
    \E ps \in [1 .. n -> Parameters] : Command_Help(g, ps)

CliSpec == CliInit /\ [][CliNext]_cliVars

-----------------------------------------------------------------------------
\* The lines Display_Command_List() prints for a group: the numbers count up
\* through its three lists.
Display_Command_List(g) ==
  IF g = NoGroup THEN <<>>
  ELSE CommandList(g) \o commands[g] \o SubgroupNames(g)

\* The number of the line a parameter means, or -1.
LineOf(g, p) ==
  LET lines == Display_Command_List(g)
      fits == {n \in 0 .. Len(lines) - 1 :
                 IF "number" \in DOMAIN p THEN n = p.number
                 ELSE [i \in 1 .. Len(p.word) |-> Upper(p.word[i])]
                      = [i \in 1 .. Len(lines[n + 1]) |-> Upper(lines[n + 1][i])]}
  IN  IF fits = {} THEN -1 ELSE CHOOSE n \in fits : \A m \in fits : n <= m

\* The group a line stands for, if it stands for one.
GroupOf(g, line) ==
  LET below == line - Len(Display_Command_List(g)) + Len(subgroups[g]) + 1
  IN  IF line >= 0 /\ below >= 1 THEN subgroups[g][below] ELSE NoGroup

\* The value of the help is 0, or the position of the first parameter that names
\* no line of the list a user is shown at that place.
HelpFollowsTheList ==
  LET g == helped.group
      ps == helped.params
      first == LineOf(g, ps[1])
      below == GroupOf(g, first)
  IN  helped.result =
        IF ps = <<>> THEN 0
        ELSE IF first = -1 THEN 1
        ELSE IF Len(ps) = 1 THEN 0
        ELSE IF below = NoGroup \/ LineOf(below, ps[2]) = -1 THEN 2 ELSE 0

=============================================================================
