----------------------------- MODULE GovContract -----------------------------
(***************************************************************************)
(* The governance precompiled contract (src/ethereum/core/vm/              *)
(* gov_contract.go): one call, from the precompile runner charging         *)
(* RequiredGas to the handler's return.                                    *)
(*                                                                         *)
(* A handler is described by what its body does before it reaches the gov *)
(* package: the gas it uses, the minimum gas price it checks (if any), the *)
(* gov operation, and the fcode it reports to nonCallHandler.  The gov     *)
(* package (not in this tree) is abstracted to its outcome: success, a     *)
(* BizError, a system error, or for GetTallyResult a nil result.  The     *)
(* receipt log txResultHandler adds is [fcode, code]; a governance write  *)
(* is recorded as the fcode of the handler that made it.                  *)
(***************************************************************************)
EXTENDS Naturals, Sequences, FiniteSets

CONSTANTS
    GovGas,         \* configs.GovGas: RequiredGas of a non-empty input
    HandlerGas,     \* configs.*Gas of each write handler: fcode -> gas
    MinPrice,       \* configs.Submit*ProposalGasPrice: fcode -> price
    GasLevels,      \* gas the caller supplies
    Prices,         \* gas prices of the transaction
    NoErr,          \* model value: a nil error
    NoPrice         \* model value: the handler checks no gas price

WriteCodes == {"SubmitText", "SubmitVersion", "SubmitParam", "Vote",
               "Declare", "SubmitCancel"}
ReadCodes  == {"GetProposal", "GetResult", "ListProposal", "GetActiveVersion",
               "GetGovernParamValue", "GetAccuVerifiersCount", "ListGovernParam"}
Outcomes   == {"ok", "biz", "sys", "nil"}

VARIABLES
    call,       \* the input: [fcode, empty, gas, tx, price, outcome]
    stage,      \* where the call is: "run", "usegas", "tx", "price", "gov", "read", "done"
    gas,        \* contract.Gas: gas left
    logs,       \* receipt logs added to the StateDB
    writes,     \* governance state writes that were kept
    ret         \* the returned ([]byte, error): [data, code, err]

vars == <<call, stage, gas, logs, writes, ret>>

-----------------------------------------------------------------------------
\* CheckGasPrice(gasPrice, fcode): only the four Submit* codes have a price.
CheckGasPrice(price, f) ==
    IF f \in DOMAIN MinPrice /\ price < MinPrice[f] THEN "ErrUnderPrice" ELSE NoErr

\* Mutant: submitCancel checks the text proposal's price.
submitCancelTextPrice ==
    [gas |-> HandlerGas["SubmitCancel"], price |-> MinPrice["SubmitText"],
     gov |-> "Submit", fcode |-> "SubmitCancel"]

\* The write handlers.  Vote and declareVersion check no price.
submitText ==
    [gas |-> HandlerGas["SubmitText"], price |-> MinPrice["SubmitText"],
     gov |-> "Submit", fcode |-> "SubmitText"]
submitVersion ==
    [gas |-> HandlerGas["SubmitVersion"], price |-> MinPrice["SubmitVersion"],
     gov |-> "Submit", fcode |-> "SubmitVersion"]
submitCancel ==
    [gas |-> HandlerGas["SubmitCancel"], price |-> MinPrice["SubmitCancel"],
     gov |-> "Submit", fcode |-> "SubmitCancel"]
submitParam ==
    [gas |-> HandlerGas["SubmitParam"], price |-> MinPrice["SubmitParam"],
     gov |-> "Submit", fcode |-> "SubmitParam"]
vote ==
    [gas |-> HandlerGas["Vote"], price |-> NoPrice, gov |-> "Vote", fcode |-> "Vote"]
declareVersion ==
    [gas |-> HandlerGas["Declare"], price |-> NoPrice,
     gov |-> "DeclareVersion", fcode |-> "Declare"]

\* FnSigns: fcode -> handler.
FnSigns ==
    [f \in WriteCodes |->
        CASE f = "SubmitText"    -> submitText
          [] f = "SubmitVersion" -> submitVersion
          [] f = "SubmitCancel"  -> submitCancel
          [] f = "SubmitParam"   -> submitParam
          [] f = "Vote"          -> vote
          [] f = "Declare"       -> declareVersion]

Handler == FnSigns[call.fcode]

\* The call returns data (nil, a receipt code or a call result) carrying
\* a result code, and an error.
Return(data, code, err) ==
    /\ ret' = [data |-> data, code |-> code, err |-> err]
    /\ stage' = "done"

Init ==
    /\ call \in [fcode : WriteCodes \cup ReadCodes, empty : BOOLEAN,
                 gas : GasLevels, tx : {"zero", "real"}, price : Prices,
                 outcome : Outcomes]
    /\ call.outcome = "nil" => call.fcode = "GetResult"
    /\ stage = "run"
    /\ gas = call.gas
    /\ logs = <<>>
    /\ writes = <<>>
    /\ ret = [data |-> "none", code |-> NoErr, err |-> NoErr]

\* Empty input: RequiredGas is 0 and Run returns nil, nil.
RunEmpty ==
    /\ stage = "run" /\ call.empty
    /\ Return("nil", NoErr, NoErr)
    /\ UNCHANGED <<call, gas, logs, writes>>

\* The precompile runner charges RequiredGas, or fails out of gas.
RunOutOfGas ==
    /\ stage = "run" /\ ~call.empty /\ gas < GovGas
    /\ Return("nil", NoErr, "ErrOutOfGas")
    /\ UNCHANGED <<call, gas, logs, writes>>

\* ... then execPhoenixchainContract calls the handler of the fcode.
Dispatch ==
    /\ stage = "run" /\ ~call.empty /\ gas >= GovGas
    /\ gas' = gas - GovGas
    /\ stage' = IF call.fcode \in WriteCodes THEN "usegas" ELSE "read"
    /\ UNCHANGED <<call, logs, writes, ret>>

\* gc.Contract.UseGas(configs.*Gas): false leaves the gas as it is.
UseGas ==
    /\ stage = "usegas"
    /\ IF gas >= Handler.gas
       THEN /\ gas' = gas - Handler.gas
            /\ stage' = "tx"
            /\ UNCHANGED ret
       ELSE /\ Return("nil", NoErr, "ErrOutOfGas")
            /\ UNCHANGED gas
    /\ UNCHANGED <<call, logs, writes>>

\* txHash == common.ZeroHash (a call, not a transaction): return nil, nil.
ZeroTxHash ==
    /\ stage = "tx"
    /\ IF call.tx = "zero"
       THEN Return("nil", NoErr, NoErr)
       ELSE /\ stage' = IF Handler.price = NoPrice THEN "gov" ELSE "price"
            /\ UNCHANGED ret
    /\ UNCHANGED <<call, gas, logs, writes>>

\* gc.Evm.GasPrice.Cmp(price) < 0: return nil, ErrUnderPrice.
PriceCheck ==
    /\ stage = "price"
    /\ IF call.price < Handler.price
       THEN Return("nil", NoErr, "ErrUnderPrice")
       ELSE /\ stage' = "gov"
            /\ UNCHANGED ret
    /\ UNCHANGED <<call, gas, logs, writes>>

\* txResultHandler: adds the receipt log and returns its code, no error.
txResultHandler(f, code) ==
    /\ logs' = Append(logs, [fcode |-> f, code |-> code])
    /\ Return("receipt", code, NoErr)

\* Mutant: a BizError is returned as an error, like a system error.
nonCallHandlerBizAsSys(f, outcome) ==
    IF outcome = "ok" THEN txResultHandler(f, NoErr)
    ELSE /\ Return("nil", NoErr, outcome)
         /\ UNCHANGED logs

\* nonCallHandler: a BizError goes into the receipt, any other error is
\* returned (and the EVM discards the call's writes), success is a NoErr
\* receipt.
nonCallHandler(f, outcome) ==
    CASE outcome = "ok"  -> txResultHandler(f, NoErr)
      [] outcome = "biz" -> txResultHandler(f, "biz")
      [] outcome = "sys" -> Return("nil", NoErr, "sys") /\ UNCHANGED logs

\* gov.Submit / gov.Vote / gov.DeclareVersion, then nonCallHandler.
GovWrite ==
    /\ stage = "gov"
    /\ writes' = IF call.outcome = "ok" THEN Append(writes, Handler.fcode) ELSE writes
    /\ nonCallHandler(Handler.fcode, call.outcome)
    /\ UNCHANGED <<call, gas>>

\* callHandler: the result and any error go into the returned data; the
\* error is always nil.  A BizError is kept, any other error becomes
\* common.InternalError.
callHandler(err) ==
    Return("result", IF err \in {NoErr, "biz"} THEN err ELSE "InternalError", NoErr)

\* The getters: one gov read, then callHandler.  getTallyResult replaces
\* the error by TallyResultNotFound (a BizError) when the result is nil.
Read ==
    /\ stage = "read"
    /\ callHandler(CASE call.outcome = "ok"  -> NoErr
                     [] call.outcome = "biz" -> "biz"
                     [] call.outcome = "sys" -> "sys"
                     [] call.outcome = "nil" -> "biz")
    /\ UNCHANGED <<call, gas, logs, writes>>

Next ==
    \/ RunEmpty \/ RunOutOfGas \/ Dispatch \/ UseGas \/ ZeroTxHash
    \/ PriceCheck \/ GovWrite \/ Read

Spec == Init /\ [][Next]_vars

-----------------------------------------------------------------------------
(* Properties.                                                             *)

\* The call gets past every check to the gov write: a non-empty input of a
\* write fcode, gas for RequiredGas and the handler, a real transaction,
\* and a gas price CheckGasPrice accepts.
ReachesGov ==
    /\ ~call.empty /\ call.fcode \in WriteCodes
    /\ call.gas >= GovGas + HandlerGas[call.fcode]
    /\ call.tx = "real"
    /\ CheckGasPrice(call.price, call.fcode) = NoErr

\* A governance write is kept only for a real transaction that paid
\* RequiredGas and the handler's own gas and whose gas price CheckGasPrice
\* (the check made before the transaction is executed) accepts for that
\* fcode: the handler's price check and CheckGasPrice agree, and the write
\* is the one of the called fcode.
GovWriteOnlyWhenPaid ==
    writes # <<>> =>
        /\ ReachesGov
        /\ call.gas - gas = GovGas + HandlerGas[call.fcode]
        /\ writes = <<call.fcode>>

\* Each call against its reference outcome: a write call that reaches the
\* gov package leaves one receipt log with its own fcode and the gov
\* result's code, and a returned error only for a system error; every
\* other write call leaves no log and returns out of gas, under price or
\* nil; a getter never returns an error and reports a BizError as is and
\* any other error as InternalError (a nil tally as TallyResultNotFound).
HandlerMatchesReference ==
    stage = "done" =>
        LET o == call.outcome IN
        CASE call.empty ->
                ret.err = NoErr /\ logs = <<>>
          [] call.gas < GovGas ->
                ret.err = "ErrOutOfGas" /\ logs = <<>>
          [] call.fcode \in ReadCodes ->
                /\ ret.err = NoErr /\ logs = <<>>
                /\ ret.code = (CASE o = "ok" -> NoErr
                                  [] o \in {"biz", "nil"} -> "biz"
                                  [] o = "sys" -> "InternalError")
          [] ReachesGov ->
                /\ logs = IF o = "sys" THEN <<>>
                          ELSE <<[fcode |-> call.fcode, code |-> IF o = "ok" THEN NoErr ELSE "biz"]>>
                /\ ret.err = IF o = "sys" THEN "sys" ELSE NoErr
          [] call.gas < GovGas + HandlerGas[call.fcode] ->
                ret.err = "ErrOutOfGas" /\ logs = <<>>
          [] call.tx = "zero" ->
                ret.err = NoErr /\ logs = <<>>
          [] OTHER ->
                ret.err = "ErrUnderPrice" /\ logs = <<>>
=============================================================================
