-------------------------------- MODULE Values --------------------------------
(***************************************************************************)
(* The values of the machine and what its operators compute                *)
(* (op_BINARY_OP, op_UNARY_OP and op_POP_JUMP_IF_FALSE of vm/vm.c).        *)
(*                                                                         *)
(* A value has a type and a number: a bool is 0 or 1, an array is known by *)
(* where it is, a function by a number of its own.  A float is a whole     *)
(* number here, so floats are not divided; decimal arithmetic is module    *)
(* Decimals.  Integers are below 2^63.                                     *)
(***************************************************************************)
EXTENDS Integers

Value(type, n) == [type |-> type, n |-> n]
Integer(i) == Value("int", i)
Boolean(b) == Value("bool", IF b THEN 1 ELSE 0)
Float(i) == Value("float", i)
Array(id) == Value("array", id)
Callee(f) == Value("function", f)
None == Value("none", 0)

Types == {"int", "bool", "float", "array", "function", "none"}
Both(l, r, type) == l.type = type /\ r.type = type

-----------------------------------------------------------------------------
ArithmeticOps == {"+", "-", "*", "/", "%"}
OrderOps == {"<", "<=", ">", ">="}
CompareOps == {"==", "!="} \cup OrderOps
LogicOps == {"and", "or"}

(* Division rounds towards zero, and by zero it is zero.                    *)
Magnitude(i) == IF i < 0 THEN -i ELSE i
Quotient(a, b) ==
    IF b = 0 THEN 0
    ELSE IF (a < 0) = (b < 0) THEN Magnitude(a) \div Magnitude(b)
    ELSE -(Magnitude(a) \div Magnitude(b))

Arithmetic(op, a, b) ==
    CASE op = "+" -> a + b
      [] op = "-" -> a - b
      [] op = "*" -> a * b
      [] op = "/" -> Quotient(a, b)
      [] op = "%" -> IF b = 0 THEN 0 ELSE a - b * Quotient(a, b)

Compare(op, a, b) ==
    CASE op = "==" -> a = b
      [] op = "!=" -> a # b
      [] op = "<" -> a < b
      [] op = "<=" -> a <= b
      [] op = ">" -> a > b
      [] op = ">=" -> a >= b

(* "and" and "or" know the truth of integers and booleans only.             *)
Truth(v) == v.type \in {"int", "bool"} /\ v.n # 0
Logic(op, l, r) == IF op = "and" THEN Truth(l) /\ Truth(r) ELSE Truth(l) \/ Truth(r)

IsNumber(v) == v.type \in {"int", "bool", "float"}

IntValue(op, a, b) ==
    IF op \in ArithmeticOps THEN Integer(Arithmetic(op, a, b)) ELSE Boolean(Compare(op, a, b))

(* A float and something else: integers and booleans count as numbers.      *)
FloatValue(op, l, r) ==
    CASE ~(IsNumber(l) /\ IsNumber(r)) -> None
      [] IsNumber(l) /\ IsNumber(r) /\ op \in ArithmeticOps -> Float(Arithmetic(op, l.n, r.n))
      [] IsNumber(l) /\ IsNumber(r) /\ op \in CompareOps -> Boolean(Compare(op, l.n, r.n))

(* Anything else can be compared, but only booleans are ever equal and      *)
(* nothing is less or greater.                                              *)
OtherValue(op, l, r) ==
    LET equal == Both(l, r, "bool") /\ l.n = r.n
    IN  CASE op = "==" -> Boolean(equal)
          [] op = "!=" -> Boolean(~equal)
          [] op \in OrderOps /\ Both(l, r, "bool") -> Boolean(FALSE)
          [] OTHER -> None

BinaryValue(op, l, r) ==
    IF op \in LogicOps THEN Boolean(Logic(op, l, r))
    ELSE IF Both(l, r, "int") THEN IntValue(op, l.n, r.n)
    ELSE IF "float" \in {l.type, r.type} THEN FloatValue(op, l, r)
    ELSE OtherValue(op, l, r)

(* "not" tells of a float whether it is not zero.                           *)
UnaryValue(op, v) ==
    CASE v.type \in {"int", "float"} /\ op = "+" -> v
      [] v.type \in {"int", "float"} /\ op = "-" -> Value(v.type, -v.n)
      [] op = "not" /\ v.type = "bool" -> Boolean(v.n = 0)
      [] op = "not" /\ v.type = "float" -> Boolean(v.n # 0)
      [] op = "not" /\ v.type = "none" -> Boolean(TRUE)
      [] OTHER -> None

(* A condition is false if it is none, or false, or the integer 0: a float  *)
(* is never false.                                                          *)
IsFalse(v) == v = None \/ (v.type \in {"int", "bool"} /\ v.n = 0)
=============================================================================
