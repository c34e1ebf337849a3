------------------------------ MODULE Includes ------------------------------
(***************************************************************************)
(* How znoc reads the files of a program.  parse_file() reads one file,    *)
(* and calls itself for each `uses`: the calls in progress are a stack,    *)
(* and the one token that all of them look at is a global variable.  What  *)
(* a file defines goes to a namespace of its own, a child of that of the   *)
(* file which included it; every name is looked up from the global one,    *)
(* that of the main file.                                                  *)
(*                                                                         *)
(* A file is a sequence of constructs, chosen when the lexer reaches them. *)
(***************************************************************************)
EXTENDS Naturals, Sequences, FiniteSets, TLC

CONSTANTS
    Files,         \* the source files there are
    Main,          \* the file on the command line
    Missing,       \* the paths of `uses` that are no file
    SpaceNames,    \* the names an included file may be given
    FunctionNames, \* the names of functions
    TypeNames,     \* the names of structs
    MaxConstructs  \* bound on the constructs in all files together

ASSUME IncludesAssumption ==
    /\ Main \in Files
    /\ Missing \cap Files = {}
    /\ MaxConstructs \in Nat

VARIABLES
    text,         \* the constructs the lexer has reached, of each file
    stack,        \* the calls of parse_file() in progress, innermost last
    currentToken, \* the first token of a construct, a global variable
    searched,     \* searchedIncludes
    namespaces,   \* for each file, the included files by their names
    named_types,  \* for each file, its structs by their names
    functions,    \* for each file and struct, its functions by their names
    attributed,   \* the functions that were given attributes
    status        \* "parsing", "parsed" or why the program was rejected

tree == <<namespaces, named_types, functions>>
vars == <<text, stack, currentToken, searched, tree, attributed, status>>

Names == SpaceNames \cup FunctionNames \cup TypeNames
Paths == {<<n>> : n \in Names} \cup (Names \X Names)

\* An extension adds a function to a struct.  A construct that begins with any
\* other token is none that parse_file() knows.
Construct ==
    [kind : {"uses"}, file : Files \cup Missing, name : SpaceNames]
      \cup [kind : {"func"}, name : FunctionNames]
      \cup [kind : {"struct"}, name : TypeNames]
      \cup [kind : {"extension"}, type : TypeNames, name : FunctionNames]
      \cup [kind : {"attributes", "other"}]
Eof  == [kind |-> "eof"]
Kind == {"uses", "func", "struct", "extension", "attributes", "other", "eof"}

\* What a file holds is known by its file and its number there, the namespace of
\* the file by number 0.
Id           == [file : Files, at : Nat]
FileSpace(f) == [file |-> f, at |-> 0]

\* One call of parse_file(): the number of its construct, 0 before the first, and
\* its variables attributes and old_current_token.
Frame   == [file : Files, at : Nat, attributes : BOOLEAN, old_current_token : Kind]
Call(f) == [file |-> f, at |-> 0, attributes |-> FALSE, old_current_token |-> "eof"]
-----------------------------------------------------------------------------
Top     == stack[Len(stack)]
Under   == SubSeq(stack, 1, Len(stack) - 1)
Here    == text[Top.file][Top.at]
HereId  == [file |-> Top.file, at |-> Top.at]

\* The innermost call looks at a construct of this kind.
Parsing  == status = "parsing"
At(kind) == Parsing /\ Top.at > 0 /\ currentToken = kind

\* What the lexer finds as construct i of file f.
Reached == Cardinality({c \in Files \X (1..MaxConstructs) : c[2] \in DOMAIN text[c[1]]})
Found(f, i) ==
    IF i \in DOMAIN text[f] THEN {text[f][i]}
    ELSE {Eof} \cup (IF Reached < MaxConstructs THEN Construct ELSE {})

Upcoming == Found(Top.file, Top.at + 1)
Ahead(c) == text' = [text EXCEPT ![Top.file] = SubSeq(@, 1, Top.at) \o <<c>>]

\* The innermost call, which becomes t, has construct c before it.
Lex(c, t) ==
    /\ Ahead(c)
    /\ stack' = Append(Under, [t EXCEPT !.at = @ + 1])
    /\ currentToken' = c.kind

\* Mutant: the attributes of a function go on to the next construct.
Mut_KeepsAttributes == Top
Reset               == [Top EXCEPT !.attributes = FALSE]

Reject(why) ==
    /\ status' = why
    /\ UNCHANGED <<text, stack, currentToken, searched, tree, attributed>>
-----------------------------------------------------------------------------
(* Namespaces *)

\* Mutant: a name that is there already is given its new meaning.
Mut_Assign(map, n, x) == [k \in DOMAIN map \cup {n} |-> IF k = n THEN x ELSE map[k]]
\* std::map::insert() leaves a name that is there as it is.
Insert(map, n, x)     == [k \in DOMAIN map \cup {n} |-> IF k \in DOMAIN map THEN map[k] ELSE x]

\* get_namespace_by_name() from the global namespace: included files first, then
\* the structs.
HasSpace(n) == n \in DOMAIN namespaces[Main] \cup DOMAIN named_types[Main]
Space(n)    == IF n \in DOMAIN namespaces[Main] THEN namespaces[Main][n]
                                                ELSE named_types[Main][n]

\* The function a path leads to, if any: a name is that of a function, if there is one,
\* rather than that of a namespace.
Globals   == functions[FileSpace(Main)]
Global(n) == n \in DOMAIN Globals
Resolve(p) ==
    CASE Len(p) = 1 /\ Global(p[1]) -> {Globals[p[1]]}
      [] Len(p) = 2 /\ ~Global(p[1]) /\ HasSpace(p[1])
                    /\ p[2] \in DOMAIN functions[Space(p[1])] -> {functions[Space(p[1])][p[2]]}
      [] OTHER -> {}
-----------------------------------------------------------------------------
(* parse_file() *)

\* Mutant: the file is not recorded.
Mut_Searched(f) == searched
Searched(f)     == Append(searched, f)
HasSearched(f)  == \E i \in DOMAIN searched : searched[i] = f

Start ==
    /\ Parsing
    /\ Top.at = 0
    /\ searched' = Searched(Top.file)
    /\ \E c \in Upcoming : Lex(c, Top)
    /\ UNCHANGED <<tree, attributed, status>>

Attributes ==
    /\ At("attributes")
    /\ \E c \in Upcoming : Lex(c, [Top EXCEPT !.attributes = TRUE])
    /\ UNCHANGED <<searched, tree, attributed, status>>

\* "Already compiling": neither the name nor the attributes are seen to.
SkipUses ==
    /\ At("uses")
    /\ HasSearched(Here.file)
    /\ \E c \in Upcoming : Lex(c, Top)
    /\ UNCHANGED <<searched, tree, attributed, status>>

\* The lexer has reached c when the call for the included file begins.
Uses ==
    /\ At("uses")
    /\ Here.file \notin Missing
    /\ ~HasSearched(Here.file)
    /\ \E c \in Upcoming :
        /\ Ahead(c)
        /\ stack' = Under \o <<[Top EXCEPT !.at = @ + 1, !.old_current_token = c.kind],
                               Call(Here.file)>>
        /\ currentToken' = c.kind
    /\ namespaces' = [namespaces EXCEPT ![Top.file] = Insert(@, Here.name, FileSpace(Here.file))]
    /\ UNCHANGED <<searched, named_types, functions, attributed, status>>

\* std::filesystem::equivalent() throws.
RejectMissing ==
    /\ At("uses")
    /\ Here.file \in Missing
    /\ Reject("missing")

\* What its body calls is looked up before it has its own name.
Function ==
    /\ At("func")
    /\ functions' = [functions EXCEPT ![FileSpace(Top.file)] = Insert(@, Here.name, HereId)]
    /\ attributed' = IF Top.attributes THEN attributed \cup {HereId} ELSE attributed
    /\ \E c \in Upcoming : Lex(c, Reset)
    /\ UNCHANGED <<searched, namespaces, named_types, status>>

\* The body of a function calls what is not there.
RejectCall ==
    /\ At("func") \/ At("extension")
    /\ \E p \in Paths : Resolve(p) = {}
    /\ Reject("not_found")

\* Mutant: the functions of a struct go to the namespace of the file.
Mut_FileMembers(ms) ==
    [functions EXCEPT ![FileSpace(Top.file)] = @ @@ [n \in ms |-> HereId]]
Members(ms) == Insert(functions, HereId, [n \in ms |-> HereId])

Struct ==
    /\ At("struct")
    /\ named_types' = [named_types EXCEPT ![Top.file] = Insert(@, Here.name, HereId)]
    /\ \E ms \in SUBSET FunctionNames : functions' = Members(ms)
    /\ \E c \in Upcoming : Lex(c, Reset)
    /\ UNCHANGED <<searched, namespaces, attributed, status>>

\* The type is looked up in the global namespace; the function is given no attributes.
Extension ==
    /\ At("extension")
    /\ Here.type \in DOMAIN named_types[Main]
    /\ functions' = [functions EXCEPT ![named_types[Main][Here.type]] = Insert(@, Here.name, HereId)]
    /\ \E c \in Upcoming : Lex(c, Reset)
    /\ UNCHANGED <<searched, namespaces, named_types, attributed, status>>

RejectExtension ==
    /\ At("extension")
    /\ Here.type \notin DOMAIN named_types[Main]
    /\ Reject("no_type")

RejectOther ==
    /\ At("other")
    /\ Reject("unimplemented")

\* Mutant: the token of the file that ended stays the current one.
Mut_Token(t) == currentToken
Restored(t)  == t.old_current_token

\* The call returns to the one that made it.
EndOfInclude ==
    /\ At("eof")
    /\ Len(stack) > 1
    /\ LET t == Under[Len(Under)]
       IN  /\ stack' = [Under EXCEPT ![Len(Under)].attributes = FALSE]
           /\ currentToken' = Restored(t)
    /\ UNCHANGED <<text, searched, tree, attributed, status>>

EndOfMain ==
    /\ At("eof")
    /\ Len(stack) = 1
    /\ stack' = Under
    /\ status' = "parsed"
    /\ UNCHANGED <<text, currentToken, searched, tree, attributed>>

Stopped == ~Parsing /\ UNCHANGED vars
-----------------------------------------------------------------------------
Init ==
    /\ text = [f \in Files |-> <<>>]
    /\ stack = <<Call(Main)>>
    /\ currentToken = "eof"
    /\ searched = <<>>
    /\ namespaces = [f \in Files |-> <<>>]
    /\ named_types = [f \in Files |-> <<>>]
    /\ functions = [s \in {FileSpace(f) : f \in Files} |-> <<>>]
    /\ attributed = {}
    /\ status = "parsing"

Next == \/ Start \/ Attributes \/ Uses \/ SkipUses \/ Function \/ Struct \/ Extension
        \/ EndOfInclude \/ EndOfMain
        \/ RejectMissing \/ RejectCall \/ RejectExtension \/ RejectOther
        \/ Stopped

Spec == Init /\ [][Next]_vars
-----------------------------------------------------------------------------
(* Properties *)

\* The type invariant.
TypeOK ==
    /\ text \in [Files -> Seq(Construct \cup {Eof})]
    /\ stack \in Seq(Frame)
    /\ currentToken \in Kind
    /\ searched \in Seq(Files)
    /\ \A f \in Files :
        /\ DOMAIN namespaces[f] \subseteq SpaceNames
        /\ \A n \in DOMAIN namespaces[f] : namespaces[f][n] \in DOMAIN functions
        /\ DOMAIN named_types[f] \subseteq TypeNames
        /\ \A n \in DOMAIN named_types[f] : named_types[f][n] \in DOMAIN functions
    /\ {FileSpace(f) : f \in Files} \subseteq DOMAIN functions /\ DOMAIN functions \subseteq Id
    /\ \A s \in DOMAIN functions : \A n \in DOMAIN functions[s] : functions[s][n] \in Id
    /\ attributed \subseteq Id
    /\ status \in {"parsing", "parsed", "missing", "not_found", "no_type", "unimplemented"}

\* No file is parsed twice, nor again while it is being parsed, whatever the
\* files include: what it defines is in one namespace.
EachFileOnce ==
    /\ \A i, j \in DOMAIN searched : searched[i] = searched[j] => i = j
    /\ \A i, j \in DOMAIN stack : stack[i].file = stack[j].file => i = j

\* However deep the includes, a call goes on with the token of its own file where
\* it was, so that a program is parsed only if every file was read to its end.
ReadToEnd ==
    /\ Parsing /\ Top.at > 0 => currentToken = Here.kind
    /\ status = "parsed" => \A i \in DOMAIN searched :
         LET t == text[searched[i]] IN t # <<>> /\ t[Len(t)] = Eof

\* Every file that is used is read once, and all of it (parsing.cpp:178 and :224-230).
ReadOnceToEnd == EachFileOnce /\ ReadToEnd

\* The construct is behind the calls in progress.
Done(c) == \A i \in DOMAIN stack : stack[i].file = c.file => c.at < stack[i].at

\* The attributes of a function are written before it in its own file, with nothing
\* but `uses` between; those that are written right before it are its own.
AttributesLocal ==
    \A f \in Files : \A i \in DOMAIN text[f] :
        LET id == [file |-> f, at |-> i]
        IN  /\ id \in attributed =>
                 \E j \in 1..(i - 1) : /\ text[f][j].kind = "attributes"
                                       /\ \A k \in (j + 1)..(i - 1) : text[f][k].kind = "uses"
            /\ id \notin attributed =>
                 ~(text[f][i].kind = "func" /\ Done(id) /\ i > 1 /\ text[f][i - 1].kind = "attributes")

\* What a path meant to one body it means to all that follow: only a function of
\* that name in the main file, or an included file with the name of a struct, can
\* come before it.
Taken(n) == \/ ~Global(n) /\ Global(n)'
            \/ n \notin DOMAIN namespaces[Main] /\ n \in DOMAIN namespaces'[Main]
NamesKept ==
    [][\A p \in Paths : Resolve(p) # {} => Resolve(p)' = Resolve(p) \/ (Len(p) = 2 /\ Taken(p[1]))]_vars
=============================================================================
