----------------------------- MODULE WireFormat -----------------------------
(***************************************************************************)
(* The text of a message and what is read back from it: MessageParser of   *)
(* the server and the same functions of ClientSocket.  A message           *)
(*                                                                         *)
(*   COMMAND: <command>                                                    *)
(*   LENGTH: <size of the body>                                            *)
(*                                                                         *)
(*   key=value;key=value                                                   *)
(*                                                                         *)
(* is a sequence of tokens.  The characters the parsers look for, and      *)
(* those they trim, are tokens of their own ("SEMI" is a semicolon, "SP" a *)
(* space, "NL" a newline, "FF" a form feed, one of the spaces only isspace *)
(* knows); any other run of characters is one token, a word.  Neither      *)
(* parser looks at LENGTH, so the size is the token "size".                *)
(***************************************************************************)
EXTENDS Integers, SequencesExt

CONSTANT KeyOrder  \* the parameter names in the order of std::map

ASSUME KeysAssumption == KeyOrder \in Seq(STRING)

NoMessage == [command |-> <<>>, params |-> <<>>]

-----------------------------------------------------------------------------
(* Strings                                                                 *)

IsSpace == {"SP", "NL", "FF"}   \* isspace, on the server
ClientSpace == {"SP", "NL"}     \* " \t\n\r", on the client

trim(s, space) ==
  LET kept == {i \in DOMAIN s : s[i] \notin space}
  IN  IF kept = {} THEN <<>> ELSE SubSeq(s, Min(kept), Max(kept))

(* A slip for the checks: the last one instead of the first.               *)
FindLast(s, token) == SelectLastInSeq(s, LAMBDA t : t = token)

(* Where a token is first found, 0 if it is not.                           *)
Find(s, token) == SelectInSeq(s, LAMBDA t : t = token)

Before(s, i) == SubSeq(s, 1, i - 1)
After(s, i) == SubSeq(s, i + 1, Len(s))

(* The members of a finite set of places, and what is at them.             *)
InOrder(places) ==
  [n \in 1 .. Cardinality(places) |->
     CHOOSE e \in places : Cardinality({f \in places : f <= e}) = n]

Kept(s, places) ==
  LET order == InOrder(places) IN [n \in DOMAIN order |-> s[order[n]]]

(* The pieces of s between the tokens of a set.                            *)
Split(s, separators) ==
  LET ends == InOrder({i \in DOMAIN s : s[i] \in separators}
                        \cup {0, Len(s) + 1})
  IN  [n \in 1 .. Len(ends) - 1 |-> SubSeq(s, ends[n] + 1, ends[n + 1] - 1)]

NonEmpty(pieces) == Kept(pieces, {i \in DOMAIN pieces : pieces[i] # <<>>})

Join(pieces, separator) ==
  LET text[i \in DOMAIN pieces] ==
        IF i = 1 THEN pieces[1] ELSE text[i - 1] \o separator \o pieces[i]
  IN  IF pieces = <<>> THEN <<>> ELSE text[Len(pieces)]

-----------------------------------------------------------------------------
(* The parameters that are set, in the order of the map.                   *)
Fields(params) ==
  LET keys == Kept(KeyOrder, {i \in DOMAIN KeyOrder :
                                <<KeyOrder[i]>> \in DOMAIN params})
  IN  [i \in DOMAIN keys |-> <<keys[i], "=">> \o params[<<keys[i]>>]]

Body(params) == Join(Fields(params), <<"SEMI">>)

(* A slip for the checks: no empty line in front of the body.              *)
BuildWithoutEmptyLine(m) ==
  <<"COMMAND", ":", "SP">> \o m.command \o <<"NL">>
    \o <<"LENGTH", ":", "SP", "size", "NL">> \o Body(m.params)

build(m) ==
  <<"COMMAND", ":", "SP">> \o m.command \o <<"NL">>
    \o <<"LENGTH", ":", "SP", "size", "NL", "NL">> \o Body(m.params)

-----------------------------------------------------------------------------
(* parse: the lines up to the first empty one are the head; the others,    *)
(* empty ones left out, are the body.                                      *)
HeadAndBody(s) ==
  LET lines == Split(s, {"NL"})
      empty == Find(lines, <<>>)
      end == IF empty = 0 THEN Len(lines) + 1 ELSE empty
  IN  [head |-> Before(lines, end),
       body |-> Join(NonEmpty(After(lines, end)), <<"NL">>)]

(* The command is the value of the last line of the head with that key.    *)
CommandOf(head, space) ==
  LET HasCommand(line) ==
        /\ Find(line, ":") # 0
        /\ trim(Before(line, Find(line, ":")), space) = <<"COMMAND">>
      at == SelectLastInSeq(head, HasCommand)
  IN  IF at = 0
      THEN <<>>
      ELSE trim(After(head[at], Find(head[at], ":")), space)

(* Each piece with a "=" sets a parameter; a later one replaces it.        *)
ParamsOf(pieces, space) ==
  LET set == Kept(pieces, {i \in DOMAIN pieces : Find(pieces[i], "=") # 0})
      KeyOf(p) == trim(Before(p, Find(p, "=")), space)
      ValueOf(p) == trim(After(p, Find(p, "=")), space)
  IN  [k \in {KeyOf(set[i]) : i \in DOMAIN set} |->
         ValueOf(set[SelectLastInSeq(set, LAMBDA p : KeyOf(p) = k)])]

(* The pieces between the semicolons of a body.                            *)
ReadFrom(body, space) ==
  LET pieces == Split(body, {"SEMI"})
  IN  ParamsOf([i \in DOMAIN pieces |-> trim(pieces[i], space)], space)

ParseTLV(s, space) ==
  LET text == HeadAndBody(s)
  IN  [command |-> CommandOf(text.head, space),
       params |-> ReadFrom(text.body, space)]

(* The old format of the server: words separated by spaces.                *)
ParseWords(s) ==
  LET words == NonEmpty(Split(s, IsSpace))
  IN  IF words = <<>>
      THEN NoMessage
      ELSE [command |-> words[1], params |-> ParamsOf(Tail(words), {})]

HasHeader(s) ==
  \E i \in 1 .. Len(s) - 1 : s[i] = "COMMAND" /\ s[i + 1] = ":"

parse(s) == IF HasHeader(s) THEN ParseTLV(s, IsSpace) ELSE ParseWords(s)

parse_message(s) ==
  IF HasHeader(s) THEN ParseTLV(s, ClientSpace) ELSE NoMessage
=============================================================================
