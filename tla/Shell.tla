------------------------------- MODULE Shell -------------------------------
(***************************************************************************)
(* The command parser of sh.c, with the shell's grammar as the reference.  *)
(* A line is a sequence of the tokens gettoken returns: a word, or one of  *)
(* the symbols, ">>" being its '+'.  The state is a line that grows.       *)
(***************************************************************************)
EXTENDS Integers, Sequences, FiniteSets, SequencesExt

CONSTANTS
    Word,       \* the words of the line
    MAXARGS,    \* size of argv, the final 0 included
    MaxLine     \* bound on the length of the line

VARIABLE line

RedirTok == {"<", ">", ">>"}
Token == Word \cup RedirTok \cup {"|", "&", ";", "(", ")"}

Init == line = <<>>
Type == /\ Len(line) < MaxLine
        /\ \E t \in Token : line' = Append(line, t)

Spec == Init /\ [][Type]_line

\* The constructors.  ">" and ">>" make the same command.
execcmd(argv) == [type |-> "EXEC", argv |-> argv]
redircmd(cmd, tok, file) == [type |-> "REDIR", cmd |-> cmd, fd |-> IF tok = "<" THEN 0 ELSE 1, file |-> file]
pipecmd(l, r) == [type |-> "PIPE", left |-> l, right |-> r]
listcmd(l, r) == [type |-> "LIST", left |-> l, right |-> r]
backcmd(cmd) == [type |-> "BACK", cmd |-> cmd]

-----------------------------------------------------------------------------
(***************************************************************************)
(* A parsing function takes the tokens that are left, s, and returns a     *)
(* command and the tokens left after it; panic ends the parse.             *)
(***************************************************************************)
panic == [ok |-> FALSE, cmd |-> <<>>, s |-> <<>>]
Parsed(cmd, s) == [ok |-> TRUE, cmd |-> cmd, s |-> s]

peek(s, toks) == s # <<>> /\ Head(s) \in toks

\* parseredirs, with the redirections it adds as a sequence
RECURSIVE parseredirs(_, _)
parseredirs(rs, s) ==
    IF ~peek(s, RedirTok) THEN Parsed(rs, s)
    ELSE IF ~peek(Tail(s), Word) THEN panic
    ELSE parseredirs(Append(rs, <<s[1], s[2]>>), SubSeq(s, 3, Len(s)))

RECURSIVE Wrap(_, _)
Wrap(cmd, rs) == IF rs = <<>> THEN cmd ELSE Wrap(redircmd(cmd, rs[1][1], rs[1][2]), Tail(rs))

\* the loop of parseexec: argv so far, and the redirections of ret
AtEnd(s) == s = <<>> \/ peek(s, {"|", ")", "&", ";"})

RECURSIVE Args(_, _, _)
Args(argv, rs, s) ==
    IF AtEnd(s) THEN Parsed(Wrap(execcmd(argv), rs), s)
    ELSE IF Head(s) \notin Word \/ Len(argv) + 1 >= MAXARGS THEN panic
    ELSE LET p == parseredirs(rs, Tail(s))
         IN IF ~p.ok THEN panic ELSE Args(Append(argv, Head(s)), p.cmd, p.s)

\* The functions below parseline take it as inner, for what is in parentheses.
parseblock(inner, s) ==
    LET p == inner[Tail(s)]
        q == parseredirs(<<>>, Tail(p.s))
    IN IF ~p.ok \/ ~peek(p.s, {")"}) THEN panic
       ELSE IF ~q.ok THEN panic
       ELSE Parsed(Wrap(p.cmd, q.cmd), q.s)

parseexec(inner, s) ==
    IF peek(s, {"("}) THEN parseblock(inner, s)
    ELSE LET p == parseredirs(<<>>, s) IN IF ~p.ok THEN panic ELSE Args(<<>>, p.cmd, p.s)

RECURSIVE parsepipe(_, _), Backs(_, _)
parsepipe(inner, s) ==
    LET p == parseexec(inner, s)
        q == parsepipe(inner, Tail(p.s))
    IN IF ~(p.ok /\ peek(p.s, {"|"})) THEN p
       ELSE IF ~q.ok THEN panic ELSE Parsed(pipecmd(p.cmd, q.cmd), q.s)

Backs(cmd, s) == IF peek(s, {"&"}) THEN Backs(backcmd(cmd), Tail(s)) ELSE Parsed(cmd, s)

parseline[s \in Seq(Token)] ==
    LET p == parsepipe(parseline, s)
        b == Backs(p.cmd, p.s)
        q == parseline[Tail(b.s)]
    IN IF ~p.ok THEN panic
       ELSE IF ~peek(b.s, {";"}) THEN b
       ELSE IF ~q.ok THEN panic ELSE Parsed(listcmd(b.cmd, q.cmd), q.s)

parsecmd(s) == LET p == parseline[s] IN IF p.s # <<>> THEN panic ELSE p

-----------------------------------------------------------------------------
(***************************************************************************)
(* The grammar: the set of the commands a sequence of tokens stands for,   *)
(* by every way of cutting it into parts.                                  *)
(*    line ::= back | back ";" line        pipe ::= exec | exec "|" pipe   *)
(*    back ::= pipe | back "&"             exec ::= "(" line ")" redirs    *)
(*                                                | words and redirs       *)
(***************************************************************************)
Before(s, k) == SubSeq(s, 1, k - 1)
Beyond(s, k) == SubSeq(s, k + 1, Len(s))
Where(s, tok) == {k \in DOMAIN s : s[k] = tok}

\* the redirections of s and the words that name no file, in order
IsFile(s, k) == k > 1 /\ s[k - 1] \in RedirTok
Ordered(K) == [i \in 1..Cardinality(K) |-> CHOOSE k \in K : Cardinality({j \in K : j <= k}) = i]
Redirs(s) == LET ks == Ordered({k \in DOMAIN s : s[k] \in RedirTok}) IN [i \in DOMAIN ks |-> <<s[ks[i]], s[ks[i] + 1]>>]
Argv(s) == LET ks == Ordered({k \in DOMAIN s : s[k] \in Word /\ ~IsFile(s, k)}) IN [i \in DOMAIN ks |-> s[ks[i]]]
IsSimple(s) ==
    /\ \A k \in DOMAIN s : s[k] \in Word \/ (s[k] \in RedirTok /\ k < Len(s) /\ s[k + 1] \in Word)
    /\ Len(Argv(s)) < MAXARGS

ExecOf(inner, s) ==
    {Wrap(execcmd(Argv(t)), Redirs(t)) : t \in {t \in {s} : IsSimple(t)}}
    \cup (IF ~peek(s, {"("}) THEN {}
          ELSE UNION {{Wrap(c, Redirs(Beyond(s, k))) : c \in inner[SubSeq(s, 2, k - 1)]} :
                         k \in {k \in Where(s, ")") : IsSimple(Beyond(s, k)) /\ Argv(Beyond(s, k)) = <<>>}})

RECURSIVE PipeOf(_, _), BackOf(_, _)
PipeOf(inner, s) ==
    ExecOf(inner, s) \cup
        UNION {{pipecmd(l, r) : l \in ExecOf(inner, Before(s, k)), r \in PipeOf(inner, Beyond(s, k))} : k \in Where(s, "|")}

BackOf(inner, s) ==
    PipeOf(inner, s) \cup (IF s # <<>> /\ Last(s) = "&" THEN {backcmd(c) : c \in BackOf(inner, Front(s))} ELSE {})

LineOf[s \in Seq(Token)] ==
    BackOf(LineOf, s) \cup
        UNION {{listcmd(l, r) : l \in BackOf(LineOf, Before(s, k)), r \in LineOf[Beyond(s, k)]} : k \in Where(s, ";")}

\* Without looking ahead more than one token and without going back, parsecmd
\* accepts exactly the lines of the grammar, and returns the one command that
\* the grammar gives the line: blocks, redirections and the precedence of
\* "|", "&" and ";" included.
ParsesGrammar == LET p == parsecmd(line) IN LineOf[line] = IF p.ok THEN {p.cmd} ELSE {}
=============================================================================
