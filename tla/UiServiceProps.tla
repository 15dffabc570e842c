--------------------------- MODULE UiServiceProps ---------------------------
(***************************************************************************)
(* What mods may rely on from UiService (docs/api.md, "UI action receipts" *)
(* and "UI visibility leases").                                            *)
(***************************************************************************)
EXTENDS UiService

\* The variables have their types: ids, pages and ages stay within the widths
\* and deadlines of ui_service.h.
TypeOK ==
  /\ enabled \in BOOLEAN /\ sampled \in BOOLEAN /\ actions \in BOOLEAN
  /\ page \in 0..MaxPage /\ generation \in 0..MaxGeneration
  /\ sampleAge \in 0..SampleCap
  /\ sequence \in 0..MaxSequence /\ screen \in Screens
  /\ nextCommand \in 0..MaxCommand
  /\ lastAck \in 0..MaxCommand /\ lastDelivery \in 0..MaxCommand
  /\ command \in Commands
  /\ receipts \in [Slots -> Receipts] /\ nextReceipt \in Slots
  /\ DOMAIN leases \subseteq Targets
  /\ \A t \in DOMAIN leases : leases[t] \in Leases
  /\ offers \in [Ids -> Nat] /\ released \subseteq Owners

\* A receipt says QUEUED or DELIVERED exactly while its command is the one in
\* the mailbox, in that state and for the page that is open.  Seven operations
\* take commands out of the mailbox; one that forgot the receipt would leave
\* the mod polling for ever, one that touched it too soon would report a
\* command finished that the page still receives.
ReceiptsFollowCommand ==
  \A i \in Slots : receipts[i].id # 0 =>
    /\ receipts[i].status = "QUEUED" <=>
         command.id = receipts[i].id /\ ~command.delivered
    /\ receipts[i].status = "DELIVERED" <=>
         command.id = receipts[i].id /\ command.delivered
    /\ receipts[i].status \in InFlight =>
         receipts[i].page = page /\ receipts[i].owner = command.owner

\* EXPIRED and CANCELLED promise that the page never saw the command; any other
\* settled status is given only to a command that was in a response
\* (docs/api.md:239-244).  So a mod may retry the first two and no other.
WithdrawnMeansNeverOffered ==
  \A i \in Slots : receipts[i].id # 0 =>
    (offers[receipts[i].id] = 0 <=> receipts[i].status \in Withdrawn \union {"QUEUED"})

\* No command is put into two responses, whatever polls are lost, repeated,
\* left unanswered or served by a later page.
OfferedAtMostOnce == \A id \in Ids : offers[id] <= 1

\* A page is handed a command at most once, and never one that its owner may
\* believe withdrawn (docs/api.md:239-244, ui_service.cpp:180).
OfferedOnceOrWithdrawn == OfferedAtMostOnce /\ WithdrawnMeansNeverOffered

\* The command in the mailbox was queued for the screen and generation that the
\* service now reports, so the check against `generation_` alone
\* (ui_service.cpp:180) can never deliver it to another screen.
CommandIsCurrent ==
  command.id # 0 => /\ enabled /\ sampled
                    /\ command.generation = generation
                    /\ command.screen = screen
                    /\ screen \in ContinueScreens /\ actions

\* Once an owner is torn down it has no command in the mailbox and no lease,
\* and nothing that happens later brings one back (ui_service.cpp:134).
ReleasedOwnsNothing ==
  /\ command.id # 0 => command.owner \notin released
  /\ \A t \in DOMAIN leases : leases[t].owner \notin released

\* A lease is only held for the screen that is shown.  A renewal does not
\* refresh the lease's screen (line 122), so this rests on every screen change,
\* page load and disable having dropped the leases.
LeasesAreForThisScreen ==
  /\ \A t \in DOMAIN leases : sampled /\ leases[t].screen = screen
  /\ Cardinality(DOMAIN leases) <= LeaseSlots

\* The slot that the next tracked command will overwrite holds the oldest
\* receipt, so the ring retains the most recent RingSize of them.
EvictsOldest ==
  \A i \in Slots : receipts[nextReceipt].id <= receipts[i].id

\* The ring holds the newest receipts, and each is in step with the mailbox
\* (ui_service.cpp:55-63, 80-83).
ReceiptsAreKept == ReceiptsFollowCommand /\ EvictsOldest

\* A definitive status never changes while the receipt is retained, whatever
\* repeated or contradictory reports arrive (ui_service.cpp:164).
DefinitiveStays ==
  [][\A i \in Slots :
       receipts[i].status \in Definitive /\ receipts'[i].id = receipts[i].id
         => receipts'[i].status = receipts[i].status]_vars

\* Only the page a command was offered to can report for it: the page that
\* replaced it cannot (docs/api.md:250).
OnlyItsPageReports ==
  [][\A i \in Slots :
       receipts'[i].status \in Reported /\ receipts[i].status \notin Reported
         => receipts'[i].page = page]_vars

\* A receipt is settled by a report at most once, and by the page it was offered to
\* (ui_service.cpp:162-168).
ReportsSettleOnce == DefinitiveStays /\ OnlyItsPageReports

\* A tracked command does not stay in flight: if the clock runs and mods ask for
\* their receipts it settles, even when the page never polls again.
EveryReceiptSettles ==
  \A id \in Ids :
    (\E i \in Slots : receipts[i].id = id /\ receipts[i].status \in InFlight)
      ~> ~(\E i \in Slots : receipts[i].id = id /\ receipts[i].status \in InFlight)

\* docs/api.md:242: EXPIRED means "Two-second deadline passed before delivery".
ExpiredOnlyAfterDeadline ==
  [][\A i \in Slots :
       receipts'[i].status = "EXPIRED" /\ receipts[i].status # "EXPIRED"
         => command.age > ExpireAfter]_vars
=============================================================================
