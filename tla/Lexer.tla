-------------------------------- MODULE Lexer --------------------------------
(***************************************************************************)
(* How znoc reads characters: advance() and get_token(), peek_next_token() *)
(* which reads ahead and goes back, and those who call them: the reading   *)
(* of operators, that peeks and then advances, and of the path of a        *)
(* `uses`, after which another file is read to its end.                    *)
(*                                                                         *)
(* The text of a file is chosen when it is read for the first time.        *)
(***************************************************************************)
EXTENDS Naturals, Sequences, FiniteSets

CONSTANTS
    Files,    \* the source files
    Main,     \* the first one
    Letters,  \* characters a word may begin with
    Digits,   \* the digits
    Symbols,  \* all other characters but ". nl and those named below
    Keywords, \* the words that are tokens of their own, as sequences
    MaxAsks,  \* bound on the expressions that an operator is too weak to go on with
    MaxText   \* bound on the characters in all files together

\* The line feed; the end of a file as fgetc() returns it; no character read.
Special == {"nl", "quote", "backslash", ".", "'", "EOF", "NUL"}
Char    == Letters \cup Digits \cup Symbols \cup (Special \ {"EOF", "NUL"})

\* The tokens whose characters are kept.
Valued == {"identifier", "integer", "decimal", "string"}

ASSUME LexerAssumption ==
    /\ IsFiniteSet(Files)
    /\ Main \in Files
    /\ Letters \cap Digits = {}
    /\ Letters \cap Symbols = {}
    /\ Digits \cap Symbols = {}
    /\ (Letters \cup Digits \cup Symbols) \cap Special = {}
    \* No character is named like a kind of token.
    /\ Symbols \cap (Valued \cup {"keyword"}) = {}
    /\ Keywords \subseteq Seq(Letters \cup Digits)
    /\ MaxAsks \in Nat
    /\ MaxText \in Nat

VARIABLES
    text,            \* the characters reached of each file, and its end
    at,              \* how many of them fgetc() has returned, ftell()
    lastChars,       \* the last one of each file
    Line,            \* LexLoc.Line
    currentToken,    \* the token before the parser, a global variable
    currentTokenVal, \* the characters of the last word, number or string
    lexing,          \* the call of get_token() in progress
    saved,           \* the call of peek_next_token() in progress, if any
    operator,        \* the call of parse_operator() or advance_op() in progress
    path,            \* how far the path of a `uses` has been read
    files,           \* the files being read, with their old_current_token
    searched,        \* searchedIncludes
    tokens,          \* history: the tokens read, where each begins and ends
    status           \* "reading" or how that ended

source  == <<text, at, lastChars, Line>>
parser  == <<operator, path, files, searched, status>>
vars    == <<source, currentToken, currentTokenVal, lexing, saved, parser, tokens>>

Token  == Valued \cup {"keyword", "EOF"} \cup Symbols \cup (Special \ {"nl", "quote", "NUL"})
Mode   == {"idle", "begin", "string", "escape", "quoted", "word", "number"}

\* An operator is the sequence of its characters; first is the number of its first
\* token.  left counts the expressions that have left it to their caller and then,
\* when it is advanced over, the calls of get_next_token() still to come.
Steps  == {"none", "double", "third", "equal", "found", "left", "advance"}
NoOperator == [step |-> "none", op |-> <<>>, first |-> 0, left |-> 0]
-----------------------------------------------------------------------------
File     == files[Len(files)].file
lastChar == lastChars[File]
Reading  == status = "reading"

\* Mutant: the end of the file counts as a space.
Mut_EofIsSpace(c) == c \in {"nl", "EOF"}
Isspace(c) == c = "nl"
Isalpha(c) == c \in Letters
Isalnum(c) == c \in Letters \cup Digits

Characters == Cardinality({p \in Files \X (1..MaxText) :
                             p[2] \in DOMAIN text[p[1]] /\ text[p[1]][p[2]] # "EOF"})
Upcoming ==
    IF at[File] < Len(text[File]) THEN {text[File][at[File] + 1]}
    ELSE {"EOF"} \cup (IF Characters < MaxText THEN Char ELSE {})

\* advance(): the next character is c.  At the end of the file it stays there.
Advance(c) ==
    /\ text' = IF at[File] < Len(text[File]) THEN text
               ELSE [text EXCEPT ![File] = Append(@, c)]
    /\ at' = IF c = "EOF" THEN at ELSE [at EXCEPT ![File] = @ + 1]
    /\ Line' = IF c = "nl" THEN Line + 1 ELSE Line

\* Almost every call of advance() is for lastChar.
Next_lastChar(c) ==
    /\ Advance(c)
    /\ lastChars' = [lastChars EXCEPT ![File] = c]

In(mode)     == Reading /\ lexing.mode = mode
Continue(l)  ==
    /\ lexing' = l
    /\ UNCHANGED <<currentToken, currentTokenVal, saved, parser, tokens>>

\* get_next_token() returns t, which has the characters first..last.
Returns(t, val, first, last) ==
    /\ currentToken' = t
    /\ currentTokenVal' = val
    /\ lexing' = [mode |-> "idle", first |-> 0, val |-> <<>>]
    /\ tokens' = IF saved # <<>> \/ t = "EOF" THEN tokens
                 ELSE [tokens EXCEPT ![File] =
                          Append(@, [kind |-> t, first |-> first, last |-> last])]
    /\ saved' = IF saved = <<>> THEN saved ELSE <<[saved[1] EXCEPT !.left = @ - 1]>>
    /\ UNCHANGED parser
-----------------------------------------------------------------------------
(* get_token() *)

NoCharYet ==
    /\ In("begin")
    /\ lastChar = "NUL"
    /\ \E c \in Upcoming : Next_lastChar(c)
    /\ Continue(lexing)

SkipSpace ==
    /\ In("begin")
    /\ Isspace(lastChar)
    /\ \E c \in Upcoming : Next_lastChar(c)
    /\ Continue(lexing)

\* What begins with the last character, read already, is at its number.
Begin(mode, val) ==
    /\ Continue([mode |-> mode, first |-> at[File], val |-> val])
    /\ UNCHANGED source

BeginString == In("begin") /\ lastChar = "quote" /\ Begin("string", <<>>)
BeginWord   == In("begin") /\ Isalpha(lastChar)  /\ Begin("word", <<lastChar>>)
BeginNumber == In("begin") /\ lastChar \in Digits /\ Begin("number", <<lastChar>>)

StringChar ==
    /\ In("string")
    /\ \E c \in Upcoming \ {"EOF"} :
        /\ Next_lastChar(c)
        /\ Continue([lexing EXCEPT
               !.mode = CASE c = "backslash" -> "escape"
                          [] c = "quote"     -> "quoted"
                          [] OTHER           -> "string",
               !.val = IF c \in {"backslash", "quote"} THEN @ ELSE Append(@, c)])

\* The end of the file is one more character of the string, and there is another
\* one after it: the loop never ends.
StringWithoutEnd ==
    /\ In("string")
    /\ "EOF" \in Upcoming
    /\ Advance("EOF")
    /\ lastChars' = [lastChars EXCEPT ![File] = "EOF"]
    /\ status' = "endless"
    /\ UNCHANGED <<currentToken, currentTokenVal, lexing, saved, operator, path, files,
                   searched, tokens>>

\* Any character may be escaped, the end of the file, too.
EscapedChar ==
    /\ In("escape")
    /\ \E c \in Upcoming :
        /\ Advance(c)
        /\ Continue([lexing EXCEPT !.mode = "string", !.val = Append(@, c)])
    /\ UNCHANGED lastChars

EndString ==
    /\ In("quoted")
    /\ \E c \in Upcoming : Next_lastChar(c)
    /\ Returns("string", lexing.val, lexing.first, at[File])

WordChar ==
    /\ In("word")
    /\ \E c \in Upcoming :
        /\ Next_lastChar(c)
        /\ IF Isalnum(c)
           THEN Continue([lexing EXCEPT !.val = Append(@, c)])
           ELSE IF lexing.val \in Keywords
                THEN Returns("keyword", currentTokenVal, lexing.first, at[File])
                ELSE Returns("identifier", lexing.val, lexing.first, at[File])

foundDecimal == \E i \in DOMAIN lexing.val : lexing.val[i] = "."

NumberGoesOn(c)  == c \in Digits \/ (~foundDecimal /\ c = ".")

NumberChar ==
    /\ In("number")
    /\ \E c \in Upcoming :
        /\ Next_lastChar(c)
        /\ IF NumberGoesOn(c)
           THEN Continue([lexing EXCEPT !.val = Append(@, c)])
           ELSE Returns(IF foundDecimal THEN "decimal" ELSE "integer",
                        lexing.val, lexing.first, at[File])

EndOfFile ==
    /\ In("begin")
    /\ ~Isspace(lastChar)
    /\ lastChar = "EOF"
    /\ Returns("EOF", currentTokenVal, 0, 0)
    /\ UNCHANGED source

AnyOther ==
    /\ In("begin")
    /\ lastChar \in Symbols \cup {".", "'", "backslash"}
    /\ \E c \in Upcoming : Next_lastChar(c)
    /\ Returns(lastChar, currentTokenVal, at[File], at[File])
-----------------------------------------------------------------------------
(* peek_next_token() *)

Snapshot ==
    [at |-> at[File], lastChar |-> lastChar, Line |-> Line,
     currentToken |-> currentToken, currentTokenVal |-> currentTokenVal]

\* Nothing is being read: the parser may call get_next_token() or peek_next_token().
Idle    == In("idle") /\ saved = <<>>
InCalls == operator.step \notin {"none", "left"} \/ path # "none"

Get == lexing' = [mode |-> "begin", first |-> 0, val |-> <<>>]

\* A step of parse_operator() or advance_op(), or of reading a path.
Parse(o, p) ==
    /\ operator' = o
    /\ path' = p
    /\ UNCHANGED <<source, currentToken, currentTokenVal, saved, files, searched, tokens,
                   status>>

\* peek_next_token(f, offset) for the next step of parse_operator().
Peek(offset) ==
    /\ Idle
    /\ saved' = <<[snapshot |-> Snapshot, left |-> offset]>>
    /\ Get
    /\ UNCHANGED <<source, currentToken, currentTokenVal, parser, tokens>>

PeekOneMore ==
    /\ In("idle")
    /\ saved # <<>>
    /\ saved[1].left > 0
    /\ Get
    /\ UNCHANGED <<source, currentToken, currentTokenVal, saved, parser, tokens>>

\* Mutant: the last character is left as it is.
Mut_KeepsLastChar(s) ==
    /\ at' = [at EXCEPT ![File] = s.at]
    /\ Line' = s.Line
    /\ currentToken' = s.currentToken
    /\ currentTokenVal' = s.currentTokenVal
    /\ UNCHANGED <<text, lastChars>>
\* Mutant: there is no fseek().
Mut_KeepsPosition(s) ==
    /\ lastChars' = [lastChars EXCEPT ![File] = s.lastChar]
    /\ Line' = s.Line
    /\ currentToken' = s.currentToken
    /\ currentTokenVal' = s.currentTokenVal
    /\ UNCHANGED <<text, at>>
Restore(s) ==
    /\ at' = [at EXCEPT ![File] = s.at]
    /\ lastChars' = [lastChars EXCEPT ![File] = s.lastChar]
    /\ Line' = s.Line
    /\ currentToken' = s.currentToken
    /\ currentTokenVal' = s.currentTokenVal
    /\ UNCHANGED text
-----------------------------------------------------------------------------
(* parse_operator() and advance_op() *)

Double == {"<", ">", "&", "|", ":"}
Third  == {"<", ">"}
Equal  == {"+", "-", "*", "/", "%", "&", "|", "^", "<", ">", "!", "="}
Single == {".", "~", "[", "("}

\* The first thing parse_operator() asks for after character c.
FirstTest(c) == CASE c \in Double -> "double"
                  [] c \in Equal \ Double -> "equal"
                  [] OTHER -> "found"

ParseOperator ==
    /\ Idle
    /\ ~InCalls
    /\ operator.left <= MaxAsks
    /\ currentToken \in Double \cup Equal \cup Single
    /\ Parse([operator EXCEPT !.step = FirstTest(currentToken), !.op = <<currentToken>>,
                              !.first = Len(tokens[File])], path)
    /\ UNCHANGED lexing

BeginPeek ==
    \/ operator.step \in {"double", "equal"} /\ Peek(1)
    \/ operator.step = "third" /\ Peek(2)

\* What parse_operator() does after it has been told of token t.
Told(o, t) ==
    LET c == o.op[1]
    IN  CASE o.step = "double" /\ t = c ->
                [o EXCEPT !.op = <<c, c>>, !.step = IF c \in Third THEN "third" ELSE "found"]
          [] o.step = "double" /\ t # c -> [o EXCEPT !.step = "equal"]
          [] o.step \in {"equal", "third"} ->
                [o EXCEPT !.step = "found", !.op = IF t = "=" THEN Append(@, "=") ELSE @]

EndPeek ==
    /\ In("idle")
    /\ saved # <<>>
    /\ saved[1].left = 0
    /\ Restore(saved[1].snapshot)
    /\ saved' = <<>>
    /\ operator' = Told(operator, currentToken)
    /\ status' = IF operator.op = <<":">> /\ currentToken # ":" THEN "rejected" ELSE status
    /\ UNCHANGED <<lexing, path, files, searched, tokens>>

\* How many tokens advance_op() takes for an operator; logical_not is one of one.
Ones   == {<<c>> : c \in (Double \cup Equal \cup Single)}
Twos   == {<<c, c>> : c \in Double} \cup {<<c, "=">> : c \in Equal}
Threes == {<<c, c, "=">> : c \in Third}

\* Mutant: the last token of the shifting assignments is left.
Mut_AtMostTwo(op)  == IF op \in Ones THEN 1 ELSE 2
\* Mutant: they take one token too many.
Mut_OneTooMany(op) == IF op \in Ones THEN 1 ELSE IF op \in Twos THEN 2 ELSE 4
Advances(op)       == IF op \in Ones THEN 1 ELSE IF op \in Twos THEN 2 ELSE 3

\* The operator is too weak for this expression: its caller asks again, or takes the
\* token.
LeaveOperator ==
    /\ Idle
    /\ operator.step = "found"
    /\ Parse([operator EXCEPT !.step = "left", !.left = @ + 1], path)
    /\ UNCHANGED lexing

TakeOperator ==
    /\ Idle
    /\ operator.step = "found"
    /\ Parse([operator EXCEPT !.step = "advance", !.left = Advances(operator.op)], path)
    /\ UNCHANGED lexing

AdvanceOne ==
    /\ Idle
    /\ operator.step = "advance"
    /\ operator.left > 0
    /\ Parse([operator EXCEPT !.left = @ - 1], path)
    /\ Get

EndOperator ==
    /\ Idle
    /\ operator.step = "advance"
    /\ operator.left = 0
    /\ Parse(NoOperator, path)
    /\ UNCHANGED lexing
-----------------------------------------------------------------------------
(* parse_file() *)

Ends(s) ==
    /\ status' = s
    /\ UNCHANGED <<source, currentToken, currentTokenVal, lexing, saved, operator, path,
                   files, searched, tokens>>

\* Any token but the end of the file is taken by some EXPECT().  Between the quotes
\* of a `uses` are the tokens of its path.
TakeToken ==
    /\ Idle
    /\ operator.step \in {"none", "left"} /\ path # "read"
    /\ currentToken # "EOF"
    /\ Parse(NoOperator, CASE currentToken # "'" -> path
                           [] path = "none"     -> "inside"
                           [] path = "inside"   -> "read")
    /\ Get

\* The end of the file is added to the path again and again.
PathWithoutEnd ==
    /\ Idle
    /\ path = "inside"
    /\ currentToken = "EOF"
    /\ Ends("endless")

ReadAlready ==
    /\ Idle
    /\ path = "read"
    /\ Parse(operator, "none")
    /\ UNCHANGED lexing

\* parse_file() of another file begins with its first token.
ReadFile(f) ==
    /\ Idle
    /\ path = "read"
    /\ f \notin searched
    /\ path' = "none"
    /\ files' = Append(files, [file |-> f, old_current_token |-> currentToken])
    /\ searched' = searched \cup {f}
    /\ Get
    /\ UNCHANGED <<source, currentToken, currentTokenVal, saved, operator, tokens, status>>

AtEnd == Idle /\ ~InCalls /\ currentToken = "EOF"

\* The file that included this one goes on; it accepts only a construct's first
\* token, or its own end.
EndInclude ==
    /\ AtEnd
    /\ Len(files) > 1
    /\ files' = SubSeq(files, 1, Len(files) - 1)
    /\ currentToken' = files[Len(files)].old_current_token
    /\ status' = IF currentToken' \in {"keyword", "EOF"} THEN status ELSE "rejected"
    /\ UNCHANGED <<source, currentTokenVal, lexing, saved, operator, path, searched,
                   tokens>>

EndMain ==
    /\ AtEnd
    /\ Len(files) = 1
    /\ Ends("read")
-----------------------------------------------------------------------------
Init ==
    /\ text = [f \in Files |-> <<>>]
    /\ at = [f \in Files |-> 0]
    /\ lastChars = [f \in Files |-> "NUL"]
    /\ Line = 1
    /\ currentToken = "EOF"
    /\ currentTokenVal = <<>>
    /\ lexing = [mode |-> "begin", first |-> 0, val |-> <<>>]
    /\ saved = <<>>
    /\ operator = NoOperator
    /\ path = "none"
    /\ files = <<[file |-> Main, old_current_token |-> "EOF"]>>
    /\ searched = {Main}
    /\ tokens = [f \in Files |-> <<>>]
    /\ status = "reading"

get_token ==
    \/ NoCharYet \/ SkipSpace \/ BeginString \/ BeginWord \/ BeginNumber \/ StringChar
    \/ StringWithoutEnd \/ EscapedChar \/ EndString \/ WordChar \/ NumberChar
    \/ EndOfFile \/ AnyOther

peek_next_token == BeginPeek \/ PeekOneMore \/ EndPeek

Operators == ParseOperator \/ LeaveOperator \/ TakeOperator \/ AdvanceOne \/ EndOperator

parse_file ==
    \/ TakeToken \/ PathWithoutEnd \/ ReadAlready
    \/ \E f \in Files : ReadFile(f)
    \/ EndInclude \/ EndMain

Ended == status # "reading" /\ UNCHANGED vars

Next == get_token \/ peek_next_token \/ Operators \/ parse_file \/ Ended

\* There is one thread, and it waits for nothing.
Spec == Init /\ [][Next]_vars /\ WF_vars(Next)
-----------------------------------------------------------------------------
(* What the lexer promises *)

TypeOK ==
    /\ text \in [Files -> Seq(Char \cup {"EOF"})]
    /\ at \in [Files -> 0..MaxText]
    /\ lastChars \in [Files -> Char \cup {"EOF", "NUL"}]
    /\ Line \in 1..MaxText + 1
    /\ currentToken \in Token
    /\ currentTokenVal \in Seq(Char \cup {"EOF"})
    /\ lexing \in [mode : Mode, first : 0..MaxText, val : Seq(Char \cup {"EOF"})]
    /\ Len(saved) <= 1
    /\ operator \in [step : Steps, op : Seq(Symbols \cup {"."}), first : 0..MaxText,
                     left : 0..(IF MaxAsks < 2 THEN 3 ELSE MaxAsks + 1)]
    /\ path \in {"none", "inside", "read"}
    /\ files \in Seq([file : Files, old_current_token : Token]) \ {<<>>}
    /\ searched \subseteq Files
    /\ tokens \in [Files -> Seq([kind : Token, first : 1..MaxText, last : 1..MaxText])]
    /\ status \in {"reading", "read", "rejected", "endless"}

\* How many characters of file f have been used, all but the last one of those read.
Used(f) == CASE lastChars[f] = "NUL" -> 0
             [] lastChars[f] = "EOF" -> at[f]
             [] OTHER                -> at[f] - 1

\* However often the parser has looked ahead, and whatever files have been read in
\* between, each character of a file that is no space is in one token, and the
\* tokens are in the order of the file (parsing.cpp:143-159, with lastChars that
\* outlives a call).
EveryCharOnce ==
    Idle =>
        \A f \in Files :
            /\ \A p \in 1..Used(f) :
                  Isspace(text[f][p])
                    \/ \E i \in DOMAIN tokens[f] : p \in tokens[f][i].first..tokens[f][i].last
            /\ \A i \in DOMAIN tokens[f] :
                  /\ tokens[f][i].first <= tokens[f][i].last
                  /\ tokens[f][i].last <= Used(f)
                  /\ i > 1 => tokens[f][i - 1].last < tokens[f][i].first

\* The line of messages is one more than the line feeds read, in all files: what has
\* only been looked at does not count (parsing.cpp:155), but a file's number goes on
\* where that of an included file ends.
LinesCounted ==
    Idle => Line = 1 + Cardinality({p \in Files \X (1..MaxText) :
                                       p[2] <= at[p[1]] /\ text[p[1]][p[2]] = "nl"})

\* The value that belongs to the token before the parser is that of this token,
\* although there is one variable for it and the lexer has read on (parsing.cpp:158).
ValueOfToken ==
    Idle /\ currentToken \in {"identifier", "integer", "decimal"} =>
        LET t == tokens[File][Len(tokens[File])]
        IN  /\ t.kind = currentToken
            /\ currentTokenVal = SubSeq(text[File], t.first, t.last)

\* peek_next_token() leaves no trace of what it has read (parsing.cpp:153-157).
LookAheadUndone == LinesCounted /\ ValueOfToken

\* What advance_op() takes is the operator that parse_operator() has found by
\* looking ahead (pratt_parser.cpp:11-165), token by token.
OperatorSpelled ==
    Idle /\ operator.step = "advance" /\ operator.left = 0 =>
        LET n == Len(operator.op)
            after == operator.first + n
        IN  /\ \A i \in 1..n : tokens[File][operator.first + i - 1].kind = operator.op[i]
            /\ Len(tokens[File]) = IF currentToken = "EOF" THEN after - 1 ELSE after

\* Every file is read to its end, or to a string or path that has none
\* (parsing.cpp:44-139).
ReadingEnds == <>(status # "reading")
=============================================================================
