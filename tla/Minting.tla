------------------------------- MODULE Minting -------------------------------
(***************************************************************************)
(* The points a photographer is minted for work that was paid for, and     *)
(* their reversal: api/app/services/proof_of_gigs.py, run by the outbox    *)
(* dispatcher (topics raww.mint, raww.reverse_refund).                     *)
(*                                                                         *)
(* A mint or a reversal is two steps.  Begin reads the reference, the rows,*)
(* the caps, the ledger and the freeze; the commit locks the balance and   *)
(* writes.  The mints are those of one gig and of the extra images bought  *)
(* on it; a refund of the gig reverses them all.                           *)
(***************************************************************************)
EXTENDS Integers, FiniteSets, FiniteSetsExt

CONSTANTS
    Dispatchers, \* outbox workers that may overlap
    GigMints,    \* mint references that are the gig's: completion, delivery
    ExtraMints,  \* mint references that are extra images bought on the gig
    RefundKeys,  \* a refund case each, and "none" for the refund event itself
    BaseRaww,    \* base_raww after the multipliers that do not change here
    DailyCap,    \* RawwIssuanceCap of the day
    BalanceFloor, \* how far reversals may push the balance below zero
    Clawbacks,   \* amounts an admin claws back
    MaxClawed    \* bound on what is clawed back

ASSUME MintingAssumption ==
    /\ BaseRaww \in Nat /\ DailyCap \in Nat /\ BalanceFloor \in Nat /\ MaxClawed \in Nat
    /\ Clawbacks \subseteq Nat \ {0}
    /\ GigMints \cap ExtraMints = {}
    /\ IsFiniteSet(GigMints \cup ExtraMints)

VARIABLES
    minted,      \* raww_mint_event rows: status and awarded points
    today,       \* the rows created since the start of the day
    rawwBalance, \* reward_balance
    earns,       \* earn entries of each mint in the ledger
    debits,      \* raww_mint_reversal entries of each mint in the ledger
    clawed,      \* the sum of the raww_clawback entries
    ledgerOpen,  \* no freeze_rewards action is active
    earnedBy,    \* what the references show: nothing yet, paid, refunded
    gigRefunded, \* the gig, a payment or a refund case of it is refunded
    queue,       \* outbox events that wait
    asked,       \* their idempotency keys
    minting      \* what each open transaction has read

mintLedger == <<rawwBalance, earns, debits, clawed>>
mintRows == <<minted, today>>
mintOutbox == <<queue, asked>>
mintWork == <<earnedBy, gigRefunded>>
mintingVars == <<mintLedger, mintRows, mintOutbox, ledgerOpen, mintWork, minting>>

Mints == GigMints \cup ExtraMints
MintEvents == [topic : {"raww.mint"}, of : Mints] \cup [topic : {"raww.reverse_refund"}, of : RefundKeys]
NoMint == [status |-> "none", awarded |-> 0]
MintRow == [status : {"none", "minted", "blocked", "reversed"}, awarded : 0..BaseRaww]

NotMinting == [op |-> "idle", on |-> "none", award |-> 0, rows |-> {}, paid |-> FALSE]

Awarded(S) == FoldSet(LAMBDA m, n : minted[m].awarded + n, 0, S)
StillMinted(S) == {m \in S : minted[m].status = "minted"}

----------------------------------------------------------------------------
(* What happens to the references *)

EnqueueMints(S) ==
    LET fresh == [topic : {"raww.mint"}, of : S] \ asked
    IN  queue' = queue \cup fresh /\ asked' = asked \cup fresh

EnqueueReversals(K) ==
    LET fresh == [topic : {"raww.reverse_refund"}, of : K] \ asked
    IN  queue' = queue \cup fresh /\ asked' = asked \cup fresh

\* a completion, a delivery, paid extras: enqueue_raww_mint
Earn(m) ==
    /\ earnedBy[m] = "nothing"
    /\ earnedBy' = [earnedBy EXCEPT ![m] = "paid"]
    /\ EnqueueMints({m})
    /\ UNCHANGED <<mintLedger, mintRows, ledgerOpen, gigRefunded, minting>>

\* a refund of the gig: enqueue_raww_refund_reversal under the case and, from
\* the webhook, without one; a part of a payment refunded outside a case
\* leaves no trace in the statuses
RefundGig(keys, traced) ==
    /\ keys \ {e.of : e \in asked} # {}
    /\ keys # {"none"} => traced
    /\ gigRefunded' = (gigRefunded \/ traced)
    /\ EnqueueReversals(keys)
    /\ UNCHANGED <<mintLedger, mintRows, ledgerOpen, earnedBy, minting>>

\* a refund of extra images reverses no mint
RefundExtra(m) ==
    /\ earnedBy[m] = "paid"
    /\ earnedBy' = [earnedBy EXCEPT ![m] = "refunded"]
    /\ UNCHANGED <<mintLedger, mintRows, mintOutbox, ledgerOpen, gigRefunded, minting>>

----------------------------------------------------------------------------
(* process_raww_mint_event *)

\* the multipliers: a refund of the gig halves what its events earn
Award == IF gigRefunded THEN BaseRaww \div 2 ELSE BaseRaww

\* _apply_caps over _minted_sum: a reversed row counts no longer
UnderCap(n) == Max({0, Min({n, DailyCap - Awarded(StillMinted(today))})})

\* _resolve_context: extras must be paid; a gig always resolves
Resolves(m) == m \in GigMints \/ earnedBy[m] = "paid"

InTransit(e) == \E d \in Dispatchers : minting[d].op # "idle" /\ minting[d].on = e

BeginMint(d, e) ==
    /\ minting[d] = NotMinting
    /\ e \in queue /\ e.topic = "raww.mint" /\ ~InTransit(e)
    /\ Resolves(e.of) /\ minted[e.of] = NoMint
    \* an inactive rule, a value too small or an abuse signal blocks the mint
    /\ \E blocked \in BOOLEAN :
           minting' = [minting EXCEPT ![d] =
               [op |-> "mint", on |-> e, rows |-> {},
                award |-> IF blocked THEN 0 ELSE UnderCap(Award),
                paid |-> ledgerOpen /\ earns[e.of] = 0]]
    /\ UNCHANGED <<mintLedger, mintRows, mintOutbox, ledgerOpen, mintWork>>

\* nothing to mint: the event is delivered as it is
SkipMint(d, e) ==
    /\ minting[d] = NotMinting
    /\ e \in queue /\ e.topic = "raww.mint" /\ ~InTransit(e)
    /\ ~Resolves(e.of) \/ minted[e.of] # NoMint
    /\ queue' = queue \ {e}
    /\ UNCHANGED <<mintLedger, mintRows, asked, ledgerOpen, mintWork, minting>>

\* _insert_mint_event, then add_reward_entry, which refuses silently when the
\* rewards are frozen or the balance would still be below zero
CommitMint(d) ==
    LET t == minting[d]
        m == t.on.of
        pays == t.award > 0 /\ t.paid /\ rawwBalance + t.award >= 0
    IN  /\ t.op = "mint"
        /\ minted' = [minted EXCEPT ![m] =
               [status |-> IF t.award > 0 THEN "minted" ELSE "blocked", awarded |-> t.award]]
        /\ today' = today \cup {m}
        /\ rawwBalance' = IF pays THEN rawwBalance + t.award ELSE rawwBalance
        /\ earns' = IF pays THEN [earns EXCEPT ![m] = @ + 1] ELSE earns
        /\ queue' = queue \ {t.on}
        /\ minting' = [minting EXCEPT ![d] = NotMinting]
        /\ UNCHANGED <<debits, clawed, asked, ledgerOpen, mintWork>>

----------------------------------------------------------------------------
(* Reversals *)

\* reverse_raww_mints_for_refund reads the minted rows of the gig
BeginReversal(d, e) ==
    /\ minting[d] = NotMinting
    /\ e \in queue /\ e.topic = "raww.reverse_refund" /\ ~InTransit(e)
    /\ minting' = [minting EXCEPT ![d] =
           [op |-> "reverse", on |-> e, award |-> 0, paid |-> ledgerOpen,
            rows |-> StillMinted(GigMints)]]
    /\ UNCHANGED <<mintLedger, mintRows, mintOutbox, ledgerOpen, mintWork>>

Fits(S) == rawwBalance - Awarded(S) >= -BalanceFloor

\* _reverse_mint_rows in the order the rows come: those that do not fit above
\* the floor stay minted; a row that has its reversal entry is only marked
ReverseMutTwice(t) ==
    \E S \in SUBSET t.rows :
        /\ S = IF t.paid THEN t.rows ELSE {}
        /\ rawwBalance' = rawwBalance - Awarded(S)
        /\ debits' = [m \in Mints |-> IF m \in S THEN debits[m] + 1 ELSE debits[m]]
        /\ UNCHANGED minted
Reverse(t) ==
    \E S \in SUBSET t.rows :
        /\ IF t.paid THEN Fits(S) /\ \A m \in t.rows \ S : ~Fits(S \cup {m}) ELSE S = {}
        /\ rawwBalance' = rawwBalance - Awarded(S)
        /\ debits' = [m \in Mints |-> IF m \in S THEN debits[m] + 1 ELSE debits[m]]
        /\ minted' = [m \in Mints |-> IF m \in S THEN [minted[m] EXCEPT !.status = "reversed"]
                                      ELSE minted[m]]

CommitReversal(d) ==
    /\ minting[d].op = "reverse"
    /\ Reverse(minting[d])
    /\ queue' = queue \ {minting[d].on}
    /\ minting' = [minting EXCEPT ![d] = NotMinting]
    /\ UNCHANGED <<today, earns, clawed, asked, ledgerOpen, mintWork>>

----------------------------------------------------------------------------
\* create_raww_clawback
CreateRawwClawback(n) ==
    /\ ledgerOpen
    /\ rawwBalance - n >= -BalanceFloor
    /\ rawwBalance' = rawwBalance - n
    /\ clawed' = clawed + n

\* post_raww_clawback, in one request
Clawback(n) ==
    /\ clawed + n <= MaxClawed
    /\ CreateRawwClawback(n)
    /\ UNCHANGED <<earns, debits, mintRows, mintOutbox, ledgerOpen, mintWork, minting>>

\* trust_safety freezes the rewards, or lifts the freeze
ToggleLedger ==
    /\ ledgerOpen' = ~ledgerOpen
    /\ UNCHANGED <<mintLedger, mintRows, mintOutbox, mintWork, minting>>

NewDay ==
    /\ today # {}
    /\ today' = {}
    /\ UNCHANGED <<mintLedger, minted, mintOutbox, ledgerOpen, mintWork, minting>>

\* the process dies before its commit; an event is run again
CrashMinting(a) ==
    /\ minting[a] # NotMinting
    /\ minting' = [minting EXCEPT ![a] = NotMinting]
    /\ UNCHANGED <<mintLedger, mintRows, mintOutbox, ledgerOpen, mintWork>>

----------------------------------------------------------------------------
MintingInit ==
    /\ minted = [m \in Mints |-> NoMint] /\ today = {}
    /\ rawwBalance = 0 /\ clawed = 0
    /\ earns = [m \in Mints |-> 0] /\ debits = [m \in Mints |-> 0]
    /\ ledgerOpen = TRUE
    /\ earnedBy = [m \in Mints |-> "nothing"] /\ gigRefunded = FALSE
    /\ queue = {} /\ asked = {}
    /\ minting = [a \in Dispatchers |-> NotMinting]

DispatchMint(d) ==
    \/ \E e \in queue : BeginMint(d, e) \/ SkipMint(d, e) \/ BeginReversal(d, e)
    \/ CommitMint(d) \/ CommitReversal(d)

MintingNext ==
    \/ \E m \in Mints : Earn(m)
    \/ \E keys \in SUBSET RefundKeys, traced \in BOOLEAN : RefundGig(keys, traced)
    \/ \E m \in ExtraMints : RefundExtra(m)
    \/ \E d \in Dispatchers : DispatchMint(d)
    \/ \E n \in Clawbacks : Clawback(n)
    \/ \E a \in Dispatchers : CrashMinting(a)
    \/ ToggleLedger \/ NewDay

MintingSpec == MintingInit /\ [][MintingNext]_mintingVars

----------------------------------------------------------------------------
(* Properties *)

MintingTypeOK ==
    /\ minted \in [Mints -> MintRow] /\ today \subseteq Mints
    /\ rawwBalance \in Int /\ clawed \in 0..MaxClawed
    /\ earns \in [Mints -> Nat] /\ debits \in [Mints -> Nat]
    /\ ledgerOpen \in BOOLEAN /\ gigRefunded \in BOOLEAN
    /\ earnedBy \in [Mints -> {"nothing", "paid", "refunded"}]
    /\ asked \subseteq MintEvents /\ queue \subseteq asked

\* However many refunds a gig has, and whatever dies or is frozen on the way,
\* a mint is taken back once, exactly when its row says reversed, and earned
\* once.
ReversedOnce ==
    \A m \in Mints : /\ debits[m] = IF minted[m].status = "reversed" THEN 1 ELSE 0
                     /\ earns[m] <= IF minted[m].status \in {"minted", "reversed"} THEN 1 ELSE 0

=============================================================================
