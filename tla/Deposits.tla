------------------------------ MODULE Deposits ------------------------------
(***************************************************************************)
(* Onchain deposits of a client (picomint-client, onchain/mod.rs).         *)
(*                                                                         *)
(* Each account has a sequence of addresses, and shows the highest it has  *)
(* reached.  One task walks the mint's output stream with one cursor for   *)
(* all accounts: it derives the next address of an account when the        *)
(* highest is used, and claims what is not spent, one output at a time.    *)
(* The address, the claim and the cursor are three commits.  After the     *)
(* mint is removed and added again all is found from the stream.           *)
(*                                                                         *)
(* An output is "dust" (worth less than the fee to receive it), "thin" (it *)
(* nets less than the input fee, and is claimed only if the account has    *)
(* notes for that) or "big".                                               *)
(***************************************************************************)
EXTENDS Naturals, Sequences, FiniteSets, FiniteSetsExt

CONSTANTS Account,
          Outsider,    \* somebody who is no account of the client
          Slice,       \* SLICE_SIZE
          MaxOutputs,  \* bound: the length of the output stream
          MaxFailures  \* bound: crashes, removals and scans that are broken off

ASSUME DepositsAssumption ==
  /\ Outsider \notin Account
  /\ Slice \in Nat \ {0} /\ MaxOutputs \in Nat /\ MaxFailures \in Nat

VARIABLES outputs,         \* the mint's stream of outputs
          claims,          \* <<output, failures before it>>: claim transactions that
                           \* are not processed
          validIndex,      \* ValidAddressIndexTable
          nextOutput,      \* NextOutputIndexTable: how many outputs are done
          outputScan,      \* check_outputs
          shownAddresses,  \* addresses that were ever shown to somebody
          failures

depositsVars == <<outputs, claims, validIndex, nextOutput, outputScan, shownAddresses, failures>>

\* The address of somebody else.
Foreign == <<Outsider, 0>>

Waiting == [at |-> "sleep"]

Looking(slice) == [at |-> "look", slice |-> slice]

DepositsInit ==
  /\ outputs = <<>> /\ claims = {} /\ validIndex = {} /\ nextOutput = 0
  /\ outputScan = Waiting /\ shownAddresses = {} /\ failures = 0

Highest(a) == Max({address[2] : address \in {v \in validIndex : v[1] = a}})

Seeded == \A a \in Account : \E v \in validIndex : v[1] = a

(***************************************************************************)
(* Depositors, and the mint                                                *)
(***************************************************************************)

\* Somebody pays to an address that was shown to him at some time.
Deposit(address, size) ==
  /\ Len(outputs) < MaxOutputs
  /\ outputs' = Append(outputs, [address |-> address, size |-> size, spent |-> FALSE])
  /\ UNCHANGED <<claims, validIndex, nextOutput, outputScan, shownAddresses, failures>>

\* The claim that the scan waits for, and not one from before a failure.
ThisClaim == <<nextOutput + 1, failures>>

\* A bug: the output counts as done.
MutAfterReject(scan) == [scan EXCEPT !.at = "done"]

\* The scan ends with an error, and starts again from the cursor later.
AfterReject(scan) == Waiting

\* Of several claims of an output the first is accepted.
AcceptClaim(claim) ==
  /\ claim \in claims /\ ~ outputs[claim[1]].spent
  /\ claims' = claims \ {claim}
  /\ outputs' = [outputs EXCEPT ![claim[1]].spent = TRUE]
  /\ outputScan' = IF outputScan.at = "await" /\ claim = ThisClaim
                   THEN [outputScan EXCEPT !.at = "done"] ELSE outputScan
  /\ UNCHANGED <<validIndex, nextOutput, shownAddresses, failures>>

\* The output is spent; or the fee is below the one that is asked by now, or the
\* wallet's last transaction is not signed yet: the output stays unspent then.
RejectClaim(claim) ==
  /\ claim \in claims
  /\ claims' = claims \ {claim}
  /\ outputScan' = IF outputScan.at = "await" /\ claim = ThisClaim
                   THEN AfterReject(outputScan) ELSE outputScan
  /\ UNCHANGED <<outputs, validIndex, nextOutput, shownAddresses, failures>>

ProcessClaim == \E claim \in claims : AcceptClaim(claim) \/ RejectClaim(claim)

(***************************************************************************)
(* output_scanner, check_outputs                                           *)
(***************************************************************************)

\* The first address of an account.
Seed(a) ==
  /\ ~ \E v \in validIndex : v[1] = a
  /\ validIndex' = validIndex \cup {<<a, 0>>} /\ shownAddresses' = shownAddresses \cup {<<a, 0>>}
  /\ UNCHANGED <<outputs, claims, nextOutput, outputScan, failures>>

\* output_info_slice: what is spent is not looked at again.
Fetch ==
  /\ Seeded /\ outputScan.at = "sleep" /\ nextOutput < Len(outputs)
  /\ outputScan' = Looking(SubSeq(outputs, nextOutput + 1, Min({nextOutput + Slice, Len(outputs)})))
  /\ UNCHANGED <<outputs, claims, validIndex, nextOutput, shownAddresses, failures>>

Own(output) == output.address \in validIndex

MustExtend ==
  LET output == Head(outputScan.slice)
  IN Own(output) /\ output.address[2] = Highest(output.address[1])

\* The highest address of an account is used: the next one is derived.
Extend ==
  LET a == Head(outputScan.slice).address[1]
      next == <<a, Highest(a) + 1>>
  IN /\ outputScan.at = "look" /\ MustExtend
     /\ validIndex' = validIndex \cup {next} /\ shownAddresses' = shownAddresses \cup {next}
     /\ UNCHANGED <<outputs, claims, nextOutput, outputScan, failures>>

\* There is nothing to claim, or no note to claim it with.
PassesOver(output) == ~ Own(output) \/ output.spent \/ output.size \in {"dust", "thin"}

\* receive_output: the claim is submitted, and its outcome awaited.
Claim ==
  LET output == Head(outputScan.slice)
  IN /\ outputScan.at = "look" /\ ~ MustExtend
     /\ Own(output) /\ ~ output.spent /\ output.size # "dust"
     /\ claims' = claims \cup {ThisClaim}
     /\ outputScan' = [outputScan EXCEPT !.at = "await"]
     /\ UNCHANGED <<outputs, validIndex, nextOutput, shownAddresses, failures>>

Advance ==
  LET output == Head(outputScan.slice)
  IN /\ \/ outputScan.at = "done"
        \/ outputScan.at = "look" /\ ~ MustExtend /\ PassesOver(output)
     /\ nextOutput' = nextOutput + 1
     /\ outputScan' = IF Len(outputScan.slice) = 1 THEN Waiting ELSE Looking(Tail(outputScan.slice))
     /\ UNCHANGED <<outputs, claims, validIndex, shownAddresses, failures>>

\* Three transactions are unsigned, a request fails, or the client crashes: the
\* scan starts again from the cursor.  What it has submitted stays submitted.
BreakOff ==
  /\ outputScan.at # "sleep" /\ failures < MaxFailures
  /\ failures' = failures + 1
  /\ outputScan' = Waiting
  /\ UNCHANGED <<outputs, claims, validIndex, nextOutput, shownAddresses>>

\* wipe_tables: the mint is removed, and added again.
Forget ==
  /\ failures < MaxFailures
  /\ failures' = failures + 1
  /\ validIndex' = {} /\ nextOutput' = 0 /\ outputScan' = Waiting
  /\ UNCHANGED <<outputs, claims, shownAddresses>>

ScannerStep == (\E a \in Account : Seed(a)) \/ Fetch \/ Extend \/ Claim \/ Advance

DepositsStep ==
  \/ \E address \in shownAddresses \cup {Foreign}, size \in {"dust", "thin", "big"} : Deposit(address, size)
  \/ ProcessClaim
  \/ ScannerStep \/ BreakOff \/ Forget

\* A claim is not refused for ever: the client asks for the fee anew each time it
\* scans, and the wallet's transactions are signed in the end.
DepositsFairness ==
  /\ WF_depositsVars(ScannerStep) /\ WF_depositsVars(ProcessClaim)
  /\ SF_depositsVars(\E claim \in claims : AcceptClaim(claim))

DepositsSpec == DepositsInit /\ [][DepositsStep]_depositsVars /\ DepositsFairness

(***************************************************************************)
(* Properties                                                              *)
(***************************************************************************)

\* Whatever breaks off in between, and after a wipe: of the outputs that the
\* cursor has passed, each big one to an address that was ever shown is spent,
\* and the address and the one after it are known; and the address that is
\* shown is none that has been used (onchain_receive: "next unused").
DepositsSound ==
  \A k \in 1 .. nextOutput :
    LET output == outputs[k]
    IN output.address \in shownAddresses =>
         /\ output.size = "big" => output.spent
         /\ output.address \in validIndex
         /\ \E v \in validIndex : v[1] = output.address[1] /\ v[2] > output.address[2]

\* A deposit is claimed in the end.
Claimed ==
  \A k \in DOMAIN outputs :
    outputs[k].address # Foreign /\ outputs[k].size = "big" => outputs[k].spent

DepositsClaimed == <>[]Claimed
=============================================================================
