------------------------------- MODULE Pricing -------------------------------
(***************************************************************************)
(* What a booking of one photographer costs, what the client pays for it   *)
(* and how the money divides: api/app/services/package_pricing.py,         *)
(* commission.py, tax.py, selection_quote.py and invoices.py, with the     *)
(* settings these read (the pricing endpoints of api/v1/admin.py and       *)
(* api/v1/pro_onboarding.py, the fee policy and tax profile of             *)
(* api/v1/payouts.py, scripts/seed_price_caps.py).                         *)
(*                                                                         *)
(* Settings change while bookings are open.  A booking carries the rates   *)
(* it was made under, the photo's price among them, but not the curve,     *)
(* which is read again when the client has selected.  Amounts are in cents *)
(* and a photo's price is rounded to them; there is one niche.  How        *)
(* payments fail or are given back is in GigPayments, who may fetch what   *)
(* in Selections.                                                          *)
(***************************************************************************)
EXTENDS Integers

CONSTANTS
    Jobs,            \* gigs
    MINIMUM_PHOTOS,
    EntryPrices,     \* prices of a photo
    IncludedCounts,  \* how many photos a package may include
    PickedCounts,    \* how many photos a client may select
    TotalPrices,     \* prices of gigs that are not of a package
    MaxPhotos,       \* bound of the photos of a gig
    Curves,          \* shapes an administrator may give the niche's curve, but flat
    Decay(_, _),     \* what the curve makes of a photo's price, in percent, by the photo's number
    FloorPercent,    \* what a photo costs at least, of the first one's price
    RetainedPercent, \* platform_fee_policy.retained_percent
    RawwPercent,     \* platform_fee_policy.pro_raww_percent
    MaxCredit,       \* platform_fee_policy.max_client_credit_percent
    FeePercents,     \* what an administrator may set fee_percent_gigs to
    CreditPercents,  \* what the photographer may pass to a client
    StandardRate,    \* the country's rate of VAT
    PriceTiers,      \* skill tiers
    MasterTier,      \* the one without a cap of its own
    PriceCaps,       \* the entry prices a cap may let through
    ExtraPrices,     \* prices of an extra photo, and bounds of them
    MaxSettings,     \* bound of the changes of settings
    MaxSubmissions   \* bound of the selections submitted for a gig

ASSUME PricingAssumption ==
    /\ MasterTier \in PriceTiers
    /\ PriceCaps \subseteq SUBSET EntryPrices
    /\ EntryPrices \cup TotalPrices \subseteq Nat \ {0}
    /\ PickedCounts \cup IncludedCounts \subseteq 0..MaxPhotos /\ ExtraPrices \subseteq Nat
    /\ FeePercents \cup CreditPercents \cup {RetainedPercent, RawwPercent, MaxCredit} \subseteq 0..100
    /\ "flat" \notin Curves /\ \A shape \in Curves, n \in 1..MaxPhotos : Decay(shape, n) \in 0..100
    /\ MaxPhotos \in Nat /\ MINIMUM_PHOTOS \in 1..MaxPhotos /\ FloorPercent \in 0..100 /\ StandardRate \in Nat

VARIABLES
    feePercent,   \* platform_fee_policy.fee_percent_gigs
    curve,        \* package_decay_curve of the niche, "flat" without a row
    caps,         \* niche_package_price_cap by tier, as the prices it lets through
    tier,         \* pro_niche_skill.tier of the photographer
    package,      \* pro_package
    credit,       \* pro_profile.client_credit_percent
    taxes,        \* tax_profile: vat_status and whether a rule of the country exists
    extraPrice,   \* pro_extra_image_price
    extraBounds,  \* extra_image_pricing_policy of the photographer's tier
    gigRow,       \* the gig rows
    base,         \* whether the stripe_payment of kind base succeeded
    difference,   \* the stripe_payment of kind difference: what it is for
    upsell,       \* what the newest purchase of extra photos costs
    submissions,  \* history: how often a selection was submitted
    pricedBy,     \* history: the curves it was priced by
    changes       \* how many settings were changed

settingVars == <<feePercent, curve, caps, tier, package, credit, taxes, extraPrice, extraBounds>>
gigVars == <<gigRow, base, difference, upsell, submissions, pricedBy>>
pricingVars == <<settingVars, gigVars, changes>>

Larger(a, b) == IF a >= b THEN a ELSE b
Smaller(a, b) == IF a <= b THEN a ELSE b
\* quantize(0.01, ROUND_HALF_UP) of a share of an amount in cents
Percent(amount, percent) == (amount * percent + 50) \div 100

----------------------------------------------------------------------------
(* The price of photos *)

\* price_at_photo: the first photos, and those of a flat curve, cost the entry
\* rate; the others not less than the floor.
PriceAt(shape, rate, n) ==
    IF n <= MINIMUM_PHOTOS \/ shape = "flat"
    THEN rate
    ELSE Larger(Percent(rate, FloorPercent), Percent(rate, Decay(shape, n)))

\* compute_total_for_photo_count: the prices of the first photos, summed
Sums(price) ==
    LET sum[n \in 0..MaxPhotos] == IF n = 0 THEN 0 ELSE sum[n - 1] + price[n] IN sum

\* compute_package_total
PackageTotal(shape, rate, count) ==
    Sums([n \in 1..MaxPhotos |-> PriceAt(shape, rate, n)])[count]

MinimumAmountMutTenOnly(rate, included) == PackageTotal(curve, rate, MINIMUM_PHOTOS)
\* compute_minimum_amount, charged when the booking is made
MinimumAmount(rate, included) == PackageTotal(curve, rate, Larger(MINIMUM_PHOTOS, included))

\* compute_extra_image_unit_price: the platform's bounds win
ExtraUnitPrice == Smaller(Larger(extraPrice, extraBounds.min), extraBounds.max)

----------------------------------------------------------------------------
(* Settings *)

Changing == changes < MaxSettings /\ changes' = changes + 1 /\ UNCHANGED gigVars

\* put_fee_policy_admin writes the whole take and not the two shares of it.
PutFeePolicy(percent) ==
    /\ Changing /\ feePercent' = percent
    /\ UNCHANGED <<curve, caps, tier, package, credit, taxes, extraPrice, extraBounds>>

\* upsert_package_decay_curves; ensure_default_package_decay_curves where none is
PutCurve(shape) ==
    /\ Changing /\ curve' = shape
    /\ UNCHANGED <<feePercent, caps, tier, package, credit, taxes, extraPrice, extraBounds>>

\* upsert_niche_package_price_caps: packages that exist are not looked at.
PutCap(t, prices) ==
    /\ Changing /\ caps' = [caps EXCEPT ![t] = prices]
    /\ UNCHANGED <<feePercent, curve, tier, package, credit, taxes, extraPrice, extraBounds>>

\* apply_caps of the seed: every tier, the highest without a maximum
ApplyCaps(prices) ==
    /\ Changing
    /\ caps' = [t \in PriceTiers |-> IF t = MasterTier THEN EntryPrices ELSE prices]
    /\ UNCHANGED <<feePercent, curve, tier, package, credit, taxes, extraPrice, extraBounds>>

\* recompute_pro_niche_skills and the administrator's override
Regrade(t) ==
    /\ Changing /\ tier' = t
    /\ UNCHANGED <<feePercent, curve, caps, package, credit, taxes, extraPrice, extraBounds>>

\* create_package, update_package with a price: within the cap of the tier held now
PricePackage(price, included) ==
    /\ Changing /\ price \in caps[tier]
    /\ package' = [price |-> price, included |-> included]
    /\ UNCHANGED <<feePercent, curve, caps, tier, credit, taxes, extraPrice, extraBounds>>

\* update_package without one: the price stays, whatever the cap has become.
ResizePackage(included) ==
    /\ Changing /\ package' = [package EXCEPT !.included = included]
    /\ UNCHANGED <<feePercent, curve, caps, tier, credit, taxes, extraPrice, extraBounds>>

\* validate_client_credit_percent
PutCredit(percent) ==
    /\ Changing /\ percent <= MaxCredit /\ credit' = percent
    /\ UNCHANGED <<feePercent, curve, caps, tier, package, taxes, extraPrice, extraBounds>>

\* update_my_tax_profile; it ends in get_my_tax_profile, which makes the one
\* rule there is, of home.
PutTaxProfile(status, home) ==
    /\ Changing /\ taxes' = [status |-> status, home |-> home, ruled |-> TRUE]
    /\ UNCHANGED <<feePercent, curve, caps, tier, package, credit, extraPrice, extraBounds>>

\* put_my_extra_image_prices, upsert_pro_extra_image_prices
PutExtraPrice(price) ==
    /\ Changing /\ extraPrice' = price
    /\ UNCHANGED <<feePercent, curve, caps, tier, package, credit, taxes, extraBounds>>

\* upsert_extra_image_pricing_policies
PutExtraPolicy(min, max) ==
    /\ Changing /\ extraBounds' = [min |-> min, max |-> max]
    /\ UNCHANGED <<feePercent, curve, caps, tier, package, credit, taxes, extraPrice>>

----------------------------------------------------------------------------
(* Bookings and payments *)

\* split_booking refuses a policy whose shares are not its take.
CanSplit(percent) == RetainedPercent + RawwPercent = feePercent /\ percent \in 0..MaxCredit

\* vat_stamp_for: no rate, 0, unless registered where there is a rule
VatStamp ==
    IF taxes.status = "registered" /\ taxes.home /\ taxes.ruled THEN StandardRate ELSE 0

NoRate == 0
NoFinal == -1
\* A gig: rate is 0 for one that is not of a package, final -1 until a selection
\* of a package's was priced; stamped are the rates it was made under.
Gig(rate, minimum, included, percent) ==
    [status |-> "payment_pending", rate |-> rate, minimum |-> minimum, final |-> NoFinal,
     included |-> included, picked |-> 0, stamped |-> TRUE, retained |-> RetainedPercent, raww |-> RawwPercent,
     credit |-> percent, vat |-> VatStamp]
NoJob == [status |-> "none"]
\* One that was made before rates were recorded, and is not paid yet
OldGig(minimum) ==
    [status |-> "payment_pending", rate |-> NoRate, minimum |-> minimum, final |-> NoFinal,
     included |-> MINIMUM_PHOTOS, picked |-> 0, stamped |-> FALSE]

\* accept_booking_request, with a credit for this job or the usual one;
\* _find_or_create_gig_from_booking knows only the usual one.
AcceptBooking(j, percent) ==
    /\ gigRow[j] = NoJob /\ package.price # NoRate
    /\ CanSplit(percent)
    /\ gigRow' = [gigRow EXCEPT ![j] =
                  Gig(package.price, MinimumAmount(package.price, package.included), package.included, percent)]
    /\ pricedBy' = [pricedBy EXCEPT ![j] = {curve}]
    /\ UNCHANGED <<settingVars, base, difference, upsell, submissions, changes>>

\* create_gig, at a price the client and the photographer agreed on
CreateGig(j, total, included) ==
    /\ gigRow[j] = NoJob /\ CanSplit(credit)
    /\ gigRow' = [gigRow EXCEPT ![j] = Gig(NoRate, total, included, credit)]
    /\ UNCHANGED <<settingVars, base, difference, upsell, submissions, pricedBy, changes>>

\* _apply_stripe_event, payment_intent.succeeded: a completed gig refuses the
\* event.  The intent of the gig is for its minimum.
PayMinimum(j) ==
    /\ gigRow[j].status \in {"payment_pending", "paid"} /\ ~base[j]
    /\ gigRow' = [gigRow EXCEPT ![j] = [gigRow[j] EXCEPT !.status = "paid"]]
    /\ base' = [base EXCEPT ![j] = TRUE]
    /\ UNCHANGED <<settingVars, difference, upsell, submissions, pricedBy, changes>>

\* finalize_gallery_and_complete_gig: a gig that is not paid stays as it is.
Finalized(status) == IF status = "paid" THEN "completed" ELSE status

IsCurvePriced(j) == gigRow[j].rate # NoRate
SelectionTotal(j, count) == PackageTotal(curve, gigRow[j].rate, count)

\* quote_selection: never less than nothing
Due(j, total) == Larger(0, total - gigRow[j].minimum)

NoDifference == [amount |-> 0, paid |-> FALSE]

\* submit_selection of a package's gig: the curve prices every photo, and a
\* difference payment that was asked for before keeps its amount.  It looks at
\* no status: a selection may be submitted before the deposit is paid, and
\* another one after the gig is completed.
SubmitSelection(j, count) ==
    LET total == SelectionTotal(j, count)
        due == Due(j, total)
    IN  /\ gigRow[j] # NoJob /\ IsCurvePriced(j)
        /\ count >= MINIMUM_PHOTOS /\ submissions[j] < MaxSubmissions
        /\ gigRow' = [gigRow EXCEPT ![j] = [gigRow[j] EXCEPT
              !.final = total, !.picked = count,
              !.status = IF due = 0 THEN Finalized(gigRow[j].status) ELSE gigRow[j].status]]
        /\ difference' = IF due > 0 /\ difference[j] = NoDifference
                         THEN [difference EXCEPT ![j] = [amount |-> due, paid |-> FALSE]]
                         ELSE difference
        /\ submissions' = [submissions EXCEPT ![j] = submissions[j] + 1]
        /\ pricedBy' = [pricedBy EXCEPT ![j] = pricedBy[j] \cup {curve}]
        /\ UNCHANGED <<settingVars, base, upsell, changes>>

\* submit_selection of another gig: extra photos are bought, by a payment of
\* their own, and the gig is closed once they are.
SubmitExtras(j, count) ==
    LET extra == Larger(0, count - gigRow[j].included)
    IN  /\ gigRow[j] # NoJob /\ ~IsCurvePriced(j)
        /\ count >= MINIMUM_PHOTOS /\ submissions[j] < MaxSubmissions
        /\ gigRow' = [gigRow EXCEPT ![j] = [gigRow[j] EXCEPT
              !.picked = count,
              !.status = IF extra = 0 THEN Finalized(gigRow[j].status) ELSE gigRow[j].status]]
        /\ upsell' = [upsell EXCEPT ![j] = extra * ExtraUnitPrice]
        /\ submissions' = [submissions EXCEPT ![j] = submissions[j] + 1]
        /\ UNCHANGED <<settingVars, base, difference, pricedBy, changes>>

\* The difference is paid, and the gig is closed, the deposit paid or not.
PayDifference(j) ==
    /\ gigRow[j].status \in {"payment_pending", "paid"}
    /\ difference[j] # NoDifference /\ ~difference[j].paid
    /\ difference' = [difference EXCEPT ![j] = [amount |-> difference[j].amount, paid |-> TRUE]]
    /\ gigRow' = [gigRow EXCEPT ![j] = [gigRow[j] EXCEPT !.status = "completed"]]
    /\ UNCHANGED <<settingVars, base, upsell, submissions, pricedBy, changes>>

\* The extra photos are paid: the gig is closed if it is paid too.
PayExtras(j) ==
    /\ gigRow[j] # NoJob /\ upsell[j] > 0
    /\ upsell' = [upsell EXCEPT ![j] = 0]
    /\ gigRow' = [gigRow EXCEPT ![j] = [gigRow[j] EXCEPT !.status = Finalized(gigRow[j].status)]]
    /\ UNCHANGED <<settingVars, base, difference, submissions, pricedBy, changes>>

----------------------------------------------------------------------------
(* Invoices *)

\* invoice_amounts: amount_final or amount_minimum
Gross(j) == IF gigRow[j].final = NoFinal THEN gigRow[j].minimum ELSE gigRow[j].final

\* The shares of what was paid; the photographer's cash is what remains.
Shares(gross, retained, raww, given) ==
    [gross |-> gross, retained |-> Percent(gross, retained), raww |-> Percent(gross, raww),
     client |-> Percent(gross, given),
     cash |-> gross - Percent(gross, retained) - Percent(gross, raww) - Percent(gross, given)]

\* vat_breakdown: VAT is taken out of the total, rounded half up; none without a rate
Net(gross, rate) == IF rate = 0 THEN gross ELSE (200 * gross + 100 + rate) \div (2 * (100 + rate))

\* What was recorded with the gig
Rates(j) == [retained |-> gigRow[j].retained, raww |-> gigRow[j].raww, credit |-> gigRow[j].credit, vat |-> gigRow[j].vat]

Refused == "refused"
\* build_invoice: a gig without recorded rates is divided by the policy in
\* force, if that can be.
Invoice(j) ==
    IF gigRow[j].stamped
    THEN [shares |-> Shares(Gross(j), Rates(j).retained, Rates(j).raww, Rates(j).credit),
          net |-> Net(Gross(j), Rates(j).vat), photos |-> gigRow[j].picked]
    ELSE IF CanSplit(0)
    THEN [shares |-> Shares(Gross(j), RetainedPercent, RawwPercent, 0),
          net |-> Gross(j), photos |-> gigRow[j].picked]
    ELSE Refused

----------------------------------------------------------------------------
PricingInit ==
    /\ feePercent = RetainedPercent + RawwPercent /\ curve = "flat"
    /\ caps = [t \in PriceTiers |-> EntryPrices] /\ tier \in PriceTiers
    /\ package \in [price : EntryPrices, included : IncludedCounts]
    /\ credit = 0 /\ taxes = [status |-> "not_answered", home |-> TRUE, ruled |-> FALSE]
    /\ extraPrice \in ExtraPrices
    /\ extraBounds \in {b \in [min : ExtraPrices, max : ExtraPrices] : b.min <= b.max}
    /\ \E total \in TotalPrices, old \in SUBSET Jobs :
          gigRow = [j \in Jobs |-> IF j \in old THEN OldGig(total) ELSE NoJob]
    /\ difference = [j \in Jobs |-> NoDifference] /\ upsell = [j \in Jobs |-> 0]
    /\ base = [j \in Jobs |-> FALSE] /\ submissions = [j \in Jobs |-> 0]
    /\ pricedBy = [j \in Jobs |-> {}] /\ changes = 0

PricingNext ==
    \/ \E percent \in FeePercents : PutFeePolicy(percent)
    \/ \E shape \in Curves \cup {"flat"} : PutCurve(shape)
    \/ \E prices \in PriceCaps : ApplyCaps(prices) \/ \E t \in PriceTiers : PutCap(t, prices)
    \/ \E t \in PriceTiers : Regrade(t)
    \/ \E included \in IncludedCounts :
          ResizePackage(included) \/ \E price \in EntryPrices : PricePackage(price, included)
    \/ \E percent \in CreditPercents : PutCredit(percent)
    \/ \E status \in {"not_registered", "registered"}, home \in BOOLEAN : PutTaxProfile(status, home)
    \/ \E price \in ExtraPrices :
          PutExtraPrice(price) \/ \E max \in ExtraPrices : price <= max /\ PutExtraPolicy(price, max)
    \/ \E j \in Jobs :
          \/ \E percent \in CreditPercents \cup {credit} : AcceptBooking(j, percent)
          \/ \E total \in TotalPrices, included \in IncludedCounts : CreateGig(j, total, included)
          \/ PayMinimum(j) \/ PayDifference(j) \/ PayExtras(j)
          \/ \E count \in PickedCounts : SubmitSelection(j, count) \/ SubmitExtras(j, count)

PricingSpec == PricingInit /\ [][PricingNext]_pricingVars
----------------------------------------------------------------------------
PricingTypeOK ==
    /\ feePercent \in 0..100 /\ curve \in Curves \cup {"flat"} /\ tier \in PriceTiers
    /\ caps \in [PriceTiers -> SUBSET EntryPrices]
    /\ package \in [price : EntryPrices, included : IncludedCounts] /\ credit \in 0..MaxCredit
    /\ \A j \in Jobs :
          /\ gigRow[j].status \in {"none", "payment_pending", "paid", "completed"}
          /\ base[j] \in BOOLEAN /\ difference[j].amount \in Nat /\ upsell[j] \in Nat
          /\ submissions[j] \in 0..MaxSubmissions /\ pricedBy[j] \subseteq Curves \cup {"flat"}
    /\ changes \in 0..MaxSettings

\* What the client paid for a gig, extra photos apart
Received(j) ==
    (IF base[j] THEN gigRow[j].minimum ELSE 0) + (IF difference[j].paid THEN difference[j].amount ELSE 0)

\* A gig whose client paid, submitted one selection, and that was completed
ClosedOnce(j) == gigRow[j].status = "completed" /\ base[j] /\ submissions[j] = 1

\* What the client paid, in the one or two payments, is what the invoice
\* divides, or the deposit where the photos selected came cheaper.
PaidAsInvoiced == \A j \in Jobs : ClosedOnce(j) => Received(j) = Larger(gigRow[j].minimum, Gross(j))

\* The photos a package includes cost no more than the deposit, unless the
\* curve was changed between the booking and the selection.
IncludedIsPaid ==
    \A j \in Jobs :
        ClosedOnce(j) /\ IsCurvePriced(j) /\ (\E c \in Curves \cup {"flat"} : pricedBy[j] = {c})
            /\ gigRow[j].picked <= Larger(MINIMUM_PHOTOS, gigRow[j].included)
        => Received(j) = gigRow[j].minimum

\* Photos are billed once, whatever settings change from the booking to the
\* selection: by the deposit up to what was included, by the difference beyond
\* (selection_quote.py, compute_minimum_amount).
PhotosAreBilledOnce == PaidAsInvoiced /\ IncludedIsPaid

\* A setting that changes later rewrites no invoice of a gig whose rates were
\* recorded (invoices.py:3-7): only another selection changes it.
InvoicesStand ==
    [][\A j \in Jobs :
          gigRow[j] # NoJob /\ gigRow[j].stamped /\ submissions'[j] = submissions[j]
          => Invoice(j)' = Invoice(j)]_pricingVars
=============================================================================
