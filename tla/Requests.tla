------------------------------ MODULE Requests ------------------------------
(***************************************************************************)
(* What a client builds for the database (src/libadbl/core): a query, an   *)
(* update, an insert or a delete, with the constraint and the attributes it*)
(* refers to, used again after a clear.  No security function of them finds*)
(* anything: the comparisons are commented out.                            *)
(***************************************************************************)
EXTENDS Naturals, Sequences, FiniteSets

CONSTANTS
  QNames,     \* columns and tables
  QValues,
  QMaxParts,  \* bound on the parts of a constraint, the columns and the attributes
  QMaxSteps   \* bound on what is done

ASSUME RequestConstants ==
  IsFiniteSet(QNames) /\ IsFiniteSet(QValues) /\ QMaxParts \in Nat /\ QMaxSteps \in Nat

VARIABLES
  qkind,        \* which request it is
  qrequest,     \* [table, columns, limit, constraint, attrs, force]
  qconstraint,  \* the list of the constraint: columns with values, inner lists
  qattrs,       \* the attributes: sequence of <<column, value>>
  qsaid,        \* what the client said of the request since it was cleared
  qnested,      \* a constraint was put into another one
  qcrash,       \* a pointer that is NULL was followed
  qsteps

requestVars == <<qkind, qrequest, qconstraint, qattrs, qsaid, qnested, qcrash, qsteps>>

Fields == {"table", "columns", "limit", "constraint", "attrs", "force"}
Nothing == "nothing"
Of(kind) ==
  CASE kind = "query" -> {"table", "columns", "limit", "constraint"}
    [] kind = "update" -> {"table", "constraint", "attrs"}
    [] kind = "insert" -> {"table", "attrs"}
    [] kind = "delete" -> {"table", "constraint", "force"}

(* adbl_query_new, adbl_update_new, adbl_insert_new, adbl_delete_new.      *)
Empty == [f \in Fields |-> IF f = "columns" THEN <<>> ELSE Nothing]
RequestInit ==
  /\ qkind \in {"query", "update", "insert", "delete"}
  /\ qrequest = Empty /\ qsaid = Empty
  /\ qconstraint = <<>> /\ qattrs = <<>>
  /\ qnested = FALSE /\ qcrash = FALSE /\ qsteps = 0

-----------------------------------------------------------------------------
Lists == UNCHANGED <<qconstraint, qattrs>>
Sets(field, value) ==
  /\ field \in Of(qkind)
  /\ qrequest' = [qrequest EXCEPT ![field] = value]
  /\ qsaid' = [qsaid EXCEPT ![field] = value]
  /\ Lists

SetTable == \E name \in QNames : Sets("table", name)
SetLimit == \E limit \in {"one", "two"} : Sets("limit", limit)
SetForce == Sets("force", "all")
SetConstraint == Sets("constraint", "refers")
SetAttributes == Sets("attrs", "refers")

(* adbl_query_addColumn, also as a subquery of another table.              *)
AddColumn ==
  /\ Len(qrequest.columns) < QMaxParts
  /\ \E column \in QNames, table \in {Nothing, "other"}, order \in {0, 1} :
       Sets("columns", Append(qrequest.columns, <<column, table, order>>))

(* Mutation: the columns are left.                                         *)
ClearedButColumns ==
  CASE qkind = "query" -> [qrequest EXCEPT !.table = Nothing]
    [] qkind = "update" -> Empty
    [] OTHER -> [qrequest EXCEPT !.table = Nothing]

(* A clear of a query leaves limit and constraint, one of an insert or a   *)
(* delete everything but the table; only an update is like new.            *)
Cleared ==
  CASE qkind = "query" -> [qrequest EXCEPT !.table = Nothing, !.columns = <<>>]
    [] qkind = "update" -> Empty
    [] OTHER -> [qrequest EXCEPT !.table = Nothing]

Clear ==
  /\ qrequest' = Cleared
  /\ qsaid' = Empty
  /\ Lists

-----------------------------------------------------------------------------
Request == UNCHANGED <<qrequest, qsaid>>

Inner == <<"inner">>   \* a constraint in a constraint

(* adbl_constraint_addChar, addLong, addConstraint.                        *)
ConstraintAdd ==
  /\ Len(qconstraint) < QMaxParts
  /\ \E part \in (QNames \X QValues) \cup {Inner} :
       /\ qconstraint' = Append(qconstraint, part)
       /\ qnested' = (qnested \/ part = Inner)
  /\ Request /\ UNCHANGED <<qattrs, qcrash>>

(* The data of an inner constraint is NULL, and is given to ecudc_destroy. *)
ConstraintClear ==
  /\ qconstraint # <<>>
  /\ qconstraint' = <<>>
  /\ qcrash' = (qcrash \/ \E i \in DOMAIN qconstraint : qconstraint[i] = Inner)
  /\ Request /\ UNCHANGED <<qattrs, qnested>>

(* Mutation: a column that is there is added again.                        *)
AttrsWithTwice(attrs, column, value) == Append(attrs, <<column, value>>)

(* adbl_attrs_addChar and addLong: the value of a column that is there is  *)
(* replaced at its place (ecmapchar_set).                                  *)
AttrsWith(attrs, column, value) ==
  LET places == {i \in DOMAIN attrs : attrs[i][1] = column}
  IN  IF places = {} THEN Append(attrs, <<column, value>>)
      ELSE [i \in DOMAIN attrs |-> IF i \in places THEN <<column, value>> ELSE attrs[i]]

AttrsAdd ==
  /\ \E column \in QNames, value \in QValues : qattrs' = AttrsWith(qattrs, column, value)
  /\ Request /\ UNCHANGED <<qconstraint, qnested, qcrash>>

AttrsClear ==
  /\ qattrs # <<>> /\ qattrs' = <<>>
  /\ Request /\ UNCHANGED <<qconstraint, qnested, qcrash>>

(* adbl_constraint_attrs: the columns of a constraint as attributes, from  *)
(* the first part on; the name and the value of an inner one are asked of  *)
(* NULL.                                                                   *)
AttrsFrom(parts) ==
  LET after[k \in 0 .. Len(parts)] ==
        IF k = 0 THEN qattrs
        ELSE IF parts[k] = Inner THEN after[k - 1]
        ELSE AttrsWith(after[k - 1], parts[k][1], parts[k][2])
  IN  after[Len(parts)]

ConstraintAttrs ==
  /\ qconstraint # <<>>
  /\ qattrs' = AttrsFrom(qconstraint)
  /\ qcrash' = (qcrash \/ \E i \in DOMAIN qconstraint : qconstraint[i] = Inner)
  /\ Request /\ UNCHANGED <<qconstraint, qnested>>

RequestNext ==
  /\ ~qcrash /\ qsteps < QMaxSteps /\ qsteps' = qsteps + 1 /\ UNCHANGED qkind
  /\ \/ /\ SetTable \/ SetLimit \/ SetForce \/ SetConstraint \/ SetAttributes
           \/ AddColumn \/ Clear
        /\ UNCHANGED <<qnested, qcrash>>
     \/ ConstraintAdd \/ ConstraintClear \/ AttrsAdd \/ AttrsClear \/ ConstraintAttrs

-----------------------------------------------------------------------------
(* The request is what was said of it since it was cleared: all but the    *)
(* fields a clear leaves.                                                  *)
Left == CASE qkind = "query" -> {"limit", "constraint"}
          [] qkind = "update" -> {}
          [] OTHER -> Of(qkind) \ {"table"}
SaidSinceClear ==
  \A f \in Fields : qrequest[f] = qsaid[f] \/ (f \in Left /\ qsaid[f] = Empty[f])

(* Every column has one value among the attributes.                        *)
OneValueEach == \A i, j \in DOMAIN qattrs : qattrs[i][1] = qattrs[j][1] => i = j

(* All of it: also NULL is followed only when a constraint was put into    *)
(* another one, which qnested remembers.                                   *)
RequestsMean == SaidSinceClear /\ OneValueEach /\ (qcrash => qnested)
=============================================================================
