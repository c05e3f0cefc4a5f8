----------------------------- MODULE LogFields -----------------------------
(***************************************************************************)
(* The rows of the dialog (a level, a text, a count and a Send button) and *)
(* the members they are copied to by UpdateData (DoDataExchange in         *)
(* src/LogMakerDlg.cpp).  The exchange goes through the fields in order,   *)
(* all levels and texts before all counts, and is broken off by the first  *)
(* count that cannot be read or is out of range; the handlers do not look  *)
(* at its result.  Texts are left out: they are copied like the levels.    *)
(* Names that LogMakerDlg has too, the other part of the same class, begin *)
(* with Fields here, so that one module can extend both.                   *)
(***************************************************************************)
EXTENDS Integers, FiniteSets

CONSTANTS
    NRows,       \* rows: 10 in the code
    Limit,       \* upper bound given to DDV_MinMaxInt: 999999 in the code
    UIntValues,  \* of a UINT: 2^32 in the code
    Numbers,     \* integers the user can leave in a count field
    Bad,         \* a count field that holds no integer, an empty one for example
    Choices      \* levels the user picks in the combo boxes

ASSUME RowsAssumption   == NRows \in Nat \ {0}
ASSUME NumberAssumption == Limit \in Nat /\ UIntValues \in Nat /\ Limit < UIntValues /\ Numbers \subseteq Int
ASSUME BadAssumption    == Bad \notin Int

Rows   == 1..NRows
Names  == {"Trace", "Debug", "Info", "Warning", "Error", "Critical", "Off"}
Levels == {"trace", "debug", "info", "warn", "err", "critical"}

ASSUME ChoicesAssumption == Choices \subseteq Names

VARIABLES
    ctlLevel, ctlCnt,  \* what the dialog shows
    strLevel, nCnt,    \* the members of CLogMakerDlg
    sent               \* what the last Send logged, and what the dialog showed then:
                       \* name and shown of its row, and whether all rows above
                       \* it were valid (clean)

fieldVars == <<ctlLevel, ctlCnt, strLevel, nCnt, sent>>

NothingSent == [row |-> 0]

FieldsTypeOK ==
    /\ ctlLevel \in [Rows -> Names]
    /\ ctlCnt \in [Rows -> Numbers \cup {Bad}]
    /\ strLevel \in [Rows -> Names]
    /\ nCnt \in [Rows -> Int]
    /\ \/ sent = NothingSent
       \/ sent \in [row : Rows, lvl : Levels, n : 0..UIntValues - 1,
                    name : Names, shown : Numbers \cup {Bad}, clean : BOOLEAN]

\* toSpdLog: the name in the combo box selects the call; what is none of the
\* five names goes to trace.  (Variant: the last branch forgotten.)
SpdLevel_NoCritical(name) ==
    CASE name = "Debug" -> "debug" [] name = "Info" -> "info"
      [] name = "Warning" -> "warn" [] name = "Error" -> "err"
      [] OTHER -> "trace"
SpdLevel(name) ==
    CASE name = "Debug"    -> "debug"
      [] name = "Info"     -> "info"
      [] name = "Warning"  -> "warn"
      [] name = "Error"    -> "err"
      [] name = "Critical" -> "critical"
      [] OTHER             -> "trace"

\* DDX_Text can read the field, and DDV_MinMaxInt accepts the value.
Readable(v) == v # Bad
Valid(v)    == Readable(v) /\ 0 <= v /\ v <= Limit

\* The exchange gets to the count of row i: no count above has broken it off.
Reached(cnts, i) == \A j \in 1..i - 1 : Valid(cnts[j])

\* The counts after the exchange: DDX_Text has stored a value before DDV_MinMaxInt
\* refuses it; what comes later keeps its old value.  (Variant: the line of the
\* first row forgotten.)
Exchanged_NoFirst(cnts) ==
    [i \in Rows |-> IF i > 1 /\ Reached(cnts, i) /\ Readable(cnts[i]) THEN cnts[i] ELSE nCnt[i]]
Exchanged(cnts) ==
    [i \in Rows |-> IF Reached(cnts, i) /\ Readable(cnts[i]) THEN cnts[i] ELSE nCnt[i]]

\* The combo box of the first row has no entry Off.
Offered(i) == IF i = 1 THEN Choices \ {"Off"} ELSE Choices

FieldsInit ==
    /\ strLevel \in [Rows -> Choices \ {"Off"}] /\ nCnt \in [Rows -> Numbers \cap 0..Limit]
    /\ ctlLevel = strLevel /\ ctlCnt = nCnt  \* initMsgs ends with UpdateData(FALSE)
    /\ sent = NothingSent

\* The user edits a row.
PickLevel(i, name) ==
    /\ name \in Offered(i)
    /\ ctlLevel' = [ctlLevel EXCEPT ![i] = name]
    /\ UNCHANGED <<ctlCnt, strLevel, nCnt, sent>>

TypeCount(i, v) ==
    /\ ctlCnt' = [ctlCnt EXCEPT ![i] = v]
    /\ UNCHANGED <<ctlLevel, strLevel, nCnt, sent>>

\* UpdateData(TRUE).
UpdateData ==
    /\ strLevel' = ctlLevel
    /\ nCnt' = Exchanged(ctlCnt)

\* The int count as sendLogMsgCnt's UINT parameter.
AsUInt(n) == n % UIntValues

\* OnBnClickedButtonSend<i>: UpdateData, then sendLogMsgCnt(strLevel<i>, ...,
\* nCnt<i>).
Send(i) ==
    /\ UpdateData
    /\ sent' = [row |-> i, lvl |-> SpdLevel(strLevel'[i]), n |-> AsUInt(nCnt'[i]),
                name |-> ctlLevel[i], shown |-> ctlCnt[i],
                clean |-> \A j \in 1..i - 1 : Valid(ctlCnt[j])]
    /\ UNCHANGED <<ctlLevel, ctlCnt>>

\* OnBnClickedCheckSendrep also begins with UpdateData.
CheckSendRep ==
    /\ UpdateData
    /\ UNCHANGED <<ctlLevel, ctlCnt, sent>>

FieldsNext ==
    \/ \E i \in Rows, name \in Choices : PickLevel(i, name)
    \/ \E i \in Rows, v \in Numbers \cup {Bad} : TypeCount(i, v)
    \/ \E i \in Rows : Send(i)
    \/ CheckSendRep

FieldsSpec == FieldsInit /\ [][FieldsNext]_fieldVars

-----------------------------------------------------------------------------
HasSent == sent # NothingSent

\* A Send logs as many messages as its row shows when no row above it is invalid;
\* rows below do not matter.  That is so even for a count that the validation has
\* just refused, one too large as it stands and a negative one as it comes out of
\* the conversion (LogMakerDlg.cpp:129-138, 327-331, 453).
FreshAboveInvalid ==
    HasSent /\ sent.clean /\ Readable(sent.shown) =>
        /\ sent.n = AsUInt(sent.shown)
        /\ Valid(sent.shown) => sent.n = sent.shown

\* A Send logs at the level its row shows, when that is a level of its own
\* (LogMakerDlg.cpp:421-435), whatever the counts: levels are exchanged first.
LevelAsShown ==
    HasSent /\ sent.name # "Off" =>
        \A name \in Names \ {"Off", sent.name} : sent.lvl # SpdLevel(name)
=============================================================================
