----------------------------- MODULE Expressions -----------------------------
(***************************************************************************)
(* The expressions of the configuration: the tokenizer's choice between    *)
(* the two meanings of "-", the parser that turns tokens into a program    *)
(* for a stack machine with jumps for && and ||, and the machine.          *)
(*                                                                         *)
(* One behaviour takes an expression tree, writes it down with no more     *)
(* parentheses than the precedences need, parses it token by token and     *)
(* runs the result.  Values are integers; an array exists only to be       *)
(* indexed.                                                                *)
(***************************************************************************)
EXTENDS Integers, Sequences, FiniteSets, SequencesExt

CONSTANT Exprs   \* the expression trees to try

(* Trees: <<"val", v>>, <<"un", op, e>>, <<"bin", op, l, r>>,              *)
(* <<"par", "(", e>> for redundant parentheses, <<"call", "f", x, y>> for  *)
(* a function of two arguments, <<"idx", x, y, i>> for [x, y][i].          *)

VARIABLES tree,    \* the expression
          input,   \* tokens still to be read
          start,   \* the tokenizer's is_start
          ops,     \* operator_stack
          out,     \* output: the program
          args,    \* arg_count
          lastVar, \* last_is_var_or_fnc
          mode,    \* "parse", "run", "done" or "error"
          pos,     \* the next instruction
          stack,   \* values of the machine
          seen     \* the operands pushed so far

parser == <<input, start, ops, out, args, lastVar>>
vars == <<tree, parser, mode, pos, stack, seen>>

Operands == {"0", "1", "2"}
ValueOf == [v \in Operands |-> CASE v = "0" -> 0 [] v = "1" -> 1 [] v = "2" -> 2]

\* BinaryOperator::precedence
Precedence ==
  [o \in {"*", "+", "-", ">", "==", "^", "&&", "||"} |->
     CASE o = "*" -> 7 [] o \in {"+", "-"} -> 6 [] o = ">" -> 5
       [] o = "==" -> 4 [] o = "^" -> 3 [] o = "&&" -> 2 [] o = "||" -> 1]

Binary == {"*", "+", "-", ">", "==", "^", "&&", "||"}
Unary == {"u!", "u-"}
Functions2 == {"f", "access", "build"}

ToBool(n) == n # 0
Flag(b) == IF b THEN 1 ELSE 0

Apply(op, l, r) ==
  CASE op = "*" -> l * r
    [] op = "+" -> l + r
    [] op = "-" -> l - r
    [] op = ">" -> Flag(l > r)
    [] op = "==" -> Flag(l = r)
    [] op = "^" -> Flag(ToBool(l) # ToBool(r))
    [] op = "&&" -> Flag(ToBool(l) /\ ToBool(r))
    [] op = "||" -> Flag(ToBool(l) \/ ToBool(r))

ApplyUnary(op, x) == IF op = "u!" THEN Flag(~ToBool(x)) ELSE -x

\* A function of two arguments that tells them apart.
F(x, y) == 2 * x + y

\* The item of an array, or the default value.
ItemAt(items, i) == IF i \in 0..(Len(items) - 1) THEN items[i + 1] ELSE 0

-----------------------------------------------------------------------------
(* What a tree means, and how it is written down.                          *)

RECURSIVE Value(_)
Value(e) ==
  CASE e[1] = "val" -> ValueOf[e[2]]
    [] e[1] = "par" -> Value(e[3])
    [] e[1] = "un" -> ApplyUnary(e[2], Value(e[3]))
    [] e[1] = "bin" -> Apply(e[2], Value(e[3]), Value(e[4]))
    [] e[1] = "call" -> F(Value(e[3]), Value(e[4]))
    [] e[1] = "idx" -> ItemAt(<<Value(e[2]), Value(e[3])>>, Value(e[4]))

\* The operands an evaluation from left to right looks at when && and ||
\* leave out a right side that cannot matter.
RECURSIVE Visits(_)
Visits(e) ==
  CASE e[1] = "val" -> <<e[2]>>
    [] e[1] \in {"par", "un"} -> Visits(e[3])
    [] e[1] = "bin" ->
         IF (e[2] = "&&" /\ ~ToBool(Value(e[3]))) \/ (e[2] = "||" /\ ToBool(Value(e[3])))
         THEN Visits(e[3]) ELSE Visits(e[3]) \o Visits(e[4])
    [] e[1] = "call" -> Visits(e[3]) \o Visits(e[4])
    [] e[1] = "idx" -> Visits(e[2]) \o Visits(e[3]) \o Visits(e[4])

\* How tightly a tree holds together when it is written down.
Tightness(e) == IF e[1] = "bin" THEN Precedence[e[2]] ELSE 8

RECURSIVE Tokens(_)
Tokens(e) ==
  LET In(x, least) ==
        IF Tightness(x) >= least THEN Tokens(x) ELSE <<"(">> \o Tokens(x) \o <<")">>
  IN CASE e[1] = "val" -> <<e[2]>>
       [] e[1] = "par" -> <<"(">> \o Tokens(e[3]) \o <<")">>
       [] e[1] = "un" -> <<IF e[2] = "u!" THEN "!" ELSE "-">> \o In(e[3], 8)
       [] e[1] = "bin" -> In(e[3], Precedence[e[2]]) \o <<e[2]>>
                            \o In(e[4], Precedence[e[2]] + 1)
       [] e[1] = "call" -> <<"f", "(">> \o Tokens(e[3]) \o <<",">> \o Tokens(e[4]) \o <<")">>
       [] e[1] = "idx" -> <<"[">> \o Tokens(e[2]) \o <<",">> \o Tokens(e[3]) \o <<"]", "[">>
                            \o Tokens(e[4]) \o <<"]">>

-----------------------------------------------------------------------------
(* The tokenizer: "-" is a sign at the start and after "(", "," and a      *)
(* binary operator, and a subtraction elsewhere.                           *)

Token ==
  CASE Head(input) = "!" -> "u!"
    [] Head(input) = "-" /\ start -> "u-"
    [] OTHER -> Head(input)

StartsAfter(t) == t \in {"(", ","} \cup Binary

-----------------------------------------------------------------------------
(* The parser.                                                             *)

Top == Last(ops)

\* update_jmp_pos, and the operator appended to the program.
Emit(entry) ==
  LET landed == IF entry.jmp = 0 THEN out
                ELSE [out EXCEPT ![entry.jmp].arg = Len(out) - entry.jmp + 1]
  IN Append(landed, [op |-> entry.t, arg |-> 0])

MustPopMut ==
  /\ ops # <<>>
  /\ Top.t \in Binary \cup Unary
  /\ \/ input = <<>>
     \/ input # <<>> /\ Token \in {")", "]", ","}
     \/ /\ input # <<>> /\ Token \in Binary
        /\ Top.t \in Binary => Precedence[Token] < Precedence[Top.t]

\* The operators that must leave the stack before the next token is taken.
MustPop ==
  /\ ops # <<>>
  /\ Top.t \in Binary \cup Unary
  /\ \/ input = <<>>
     \/ input # <<>> /\ Token \in {")", "]", ","}
     \/ /\ input # <<>> /\ Token \in Binary
        /\ Top.t \in Binary => Precedence[Token] <= Precedence[Top.t]

Reduce ==
  /\ mode = "parse" /\ MustPop
  /\ out' = Emit(Top)
  /\ ops' = Front(ops)
  /\ UNCHANGED <<tree, input, start, args, lastVar, mode, pos, stack, seen>>

\* inc_arg_count and dec_arg_count
IncArgs(a) == IF a = <<>> THEN a ELSE [a EXCEPT ![Len(a)] = @ + 1]
DecArgs(a) == IF a = <<>> THEN a ELSE [a EXCEPT ![Len(a)] = @ - 1]

\* The array literal whose bracket is on top counts one item more.
CountItem(o) ==
  LET k == IF Len(o) > 1 THEN Len(o) - 1 ELSE 1
  IN IF args # <<>> /\ o # <<>> /\ o[k].t = "build"
     THEN [o EXCEPT ![k].n = @ + 1] ELSE o

Entry(t, n) == [t |-> t, jmp |-> 0, n |-> n]

Take(t, isVar) ==
  /\ mode = "parse" /\ input # <<>> /\ ~MustPop
  /\ input' = Tail(input) /\ start' = StartsAfter(t) /\ lastVar' = isVar
  /\ UNCHANGED <<tree, pos, stack, seen>>

Operand ==
  /\ input # <<>> /\ Token \in Operands
  /\ Take(Token, TRUE)
  /\ args' = IncArgs(args) /\ ops' = CountItem(ops)
  /\ out' = Append(out, [op |-> "val", arg |-> ValueOf[Token]])
  /\ UNCHANGED mode

UnaryOperator ==
  /\ input # <<>> /\ Token \in Unary
  /\ Take(Token, FALSE)
  /\ ops' = Append(ops, Entry(Token, 0))
  /\ UNCHANGED <<args, out, mode>>

BinaryOperator ==
  /\ input # <<>> /\ Token \in Binary
  /\ Take(Token, FALSE)
  /\ args' = DecArgs(args)
  /\ out' = CASE Token = "&&" -> Append(out, [op |-> "jump0", arg |-> 0])
              [] Token = "||" -> Append(out, [op |-> "jump1", arg |-> 0])
              [] OTHER -> out
  /\ ops' = Append(ops, [Entry(Token, 0) EXCEPT
                           !.jmp = IF Token \in {"&&", "||"} THEN Len(out) + 1 ELSE 0])
  /\ UNCHANGED mode

Function ==
  /\ input # <<>> /\ Token = "f"
  /\ Take(Token, FALSE)
  /\ args' = Append(IncArgs(args), 0)
  /\ ops' = Append(CountItem(ops), Entry("f", 2))
  /\ UNCHANGED <<out, mode>>

OpenParen ==
  /\ input # <<>> /\ Token = "("
  /\ Take(Token, FALSE)
  /\ ops' = Append(ops, Entry("(", 0))
  /\ UNCHANGED <<args, out, mode>>

OpenBracket ==
  /\ input # <<>> /\ Token = "["
  /\ Take(Token, FALSE)
  /\ args' = IF lastVar THEN Append(args, 1) ELSE Append(IncArgs(args), 0)
  /\ ops' = IF lastVar THEN ops \o <<Entry("access", 2), Entry("[", 0)>>
            ELSE CountItem(ops) \o <<Entry("build", 0), Entry("[", 0)>>
  /\ UNCHANGED <<out, mode>>

Comma ==
  /\ input # <<>> /\ Token = ","
  /\ Take(Token, FALSE)
  /\ UNCHANGED <<ops, args, out, mode>>

\* The bracket matches; a function below it takes its arguments, which must
\* be as many as it expects.
Close ==
  LET below == Front(ops)
      f == Last(below)
  IN /\ input # <<>> /\ Token \in {")", "]"}
     /\ Take(Token, TRUE)
     /\ IF ops = <<>> \/ Top.t # (IF Token = ")" THEN "(" ELSE "[")
        THEN mode' = "error" /\ UNCHANGED <<ops, args, out>>
        ELSE IF below = <<>> \/ f.t \notin Functions2
        THEN ops' = below /\ UNCHANGED <<args, out, mode>>
        ELSE IF Last(args) # f.n
        THEN mode' = "error" /\ UNCHANGED <<ops, args, out>>
        ELSE /\ ops' = Front(below) /\ args' = Front(args)
             /\ out' = Append(out, [op |-> f.t, arg |-> f.n])
             /\ UNCHANGED mode

\* The end of the input, with no operator left.
Parsed ==
  /\ mode = "parse" /\ input = <<>> /\ ~MustPop
  /\ mode' = IF ops = <<>> THEN "run" ELSE "error"
  /\ pos' = 1
  /\ UNCHANGED <<tree, parser, stack, seen>>

-----------------------------------------------------------------------------
(* The machine.  A value that is missing counts as the default.            *)

Item(k) == IF Len(stack) >= k THEN stack[Len(stack) - k + 1] ELSE 0
Drop(k) == SubSeq(stack, 1, Len(stack) - k)

Pops(op) == CASE op \in Unary -> 1 [] op \in Binary \cup {"f"} -> 2
              [] op = "access" -> 2 [] OTHER -> 0

\* One instruction; an array on the stack is its items.
Result(i) ==
  CASE i.op = "val" -> i.arg
    [] i.op \in Unary -> ApplyUnary(i.op, Item(1))
    [] i.op \in Binary -> Apply(i.op, Item(2), Item(1))
    [] i.op = "f" -> F(Item(2), Item(1))

Step ==
  LET i == out[pos]
  IN /\ mode = "run" /\ pos <= Len(out)
     /\ i.op \notin {"jump0", "jump1", "build", "access"}
     /\ stack' = Append(Drop(Pops(i.op)), Result(i))
     /\ pos' = pos + 1
     /\ seen' = IF i.op = "val" THEN Append(seen, i.arg) ELSE seen
     /\ UNCHANGED <<tree, parser, mode>>

JmpIf ==
  LET i == out[pos]
  IN /\ mode = "run" /\ pos <= Len(out) /\ i.op \in {"jump0", "jump1"}
     /\ pos' = IF (stack # <<>> /\ ToBool(Last(stack))) = (i.op = "jump1")
               THEN pos + 1 + i.arg ELSE pos + 1
     /\ UNCHANGED <<tree, parser, mode, stack, seen>>

\* An array built here is indexed by the access that follows; its items
\* stay on the stack until then.
ArrayBuild ==
  /\ mode = "run" /\ pos <= Len(out) /\ out[pos].op = "build"
  /\ pos' = pos + 1
  /\ UNCHANGED <<tree, parser, mode, stack, seen>>

ArrayAccess ==
  /\ mode = "run" /\ pos <= Len(out) /\ out[pos].op = "access"
  /\ stack' = Append(Drop(3), ItemAt(<<Item(3), Item(2)>>, Item(1)))
  /\ pos' = pos + 1
  /\ UNCHANGED <<tree, parser, mode, seen>>

Finish ==
  /\ mode = "run" /\ pos > Len(out)
  /\ mode' = "done"
  /\ UNCHANGED <<tree, parser, pos, stack, seen>>

-----------------------------------------------------------------------------
Init ==
  /\ tree \in Exprs
  /\ input = Tokens(tree) /\ start = TRUE
  /\ ops = <<>> /\ out = <<>> /\ args = <<>> /\ lastVar = FALSE
  /\ mode = "parse" /\ pos = 0 /\ stack = <<>> /\ seen = <<>>

Parse ==
  \/ Reduce \/ Operand \/ UnaryOperator \/ BinaryOperator \/ Function
  \/ OpenParen \/ OpenBracket \/ Comma \/ Close \/ Parsed

Run == Step \/ JmpIf \/ ArrayBuild \/ ArrayAccess \/ Finish

Next == Parse \/ Run

\* Parsing and evaluation are loops that nothing interrupts.
Spec == Init /\ [][Next]_vars /\ WF_vars(Next)

-----------------------------------------------------------------------------
\* The program gives the value of the expression: precedences, parentheses,
\* signs, the order of operands and the landing places of the jumps agree.
Correct == mode = "done" => stack # <<>> /\ Last(stack) = Value(tree)

\* The jumps of && and || leave out exactly the operands that cannot matter.
Lazy == mode = "done" => seen = [k \in 1..Len(Visits(tree)) |-> ValueOf[Visits(tree)[k]]]

\* The machine never falls back to a default value: every instruction finds
\* its operands, and one value is left at the end.
NoUnderflow ==
  /\ (mode = "run" /\ pos \in 1..Len(out)) =>
       Len(stack) >= (IF out[pos].op \in {"jump0", "jump1"} THEN 1 ELSE Pops(out[pos].op))
  /\ mode = "done" => Len(stack) = 1

\* An expression written according to the grammar is accepted.
Accepted == mode # "error"

\* Parsing and evaluation end.
Ends == <>(mode \in {"done", "error"})
=============================================================================
