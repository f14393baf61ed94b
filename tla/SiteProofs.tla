----------------------------- MODULE SiteProofs -----------------------------
(***************************************************************************)
(* The booking page, the tabs of a customer and the session of the panel,  *)
(* for any catalog, any number of tabs, bookings, calls and sessions, as   *)
(* components and in the site that runs one of them.                       *)
(*                                                                         *)
(* None of these properties is inductive. The times on the screen are those*)
(* of its choice because the one query whose answer the page still takes   *)
(* is that of the screen, and whatever fades out was drawn from a page that*)
(* the handlers can no longer move apart from it (WizardInv). A booking is *)
(* in the cookie because an entry is only taken out for an answer that says*)
(* it is cancelled, and is made once because one tab at a time saved what  *)
(* it took to Google, and waits for one answer about it (TabsInv). A token *)
(* is refused for a cause because, with nothing gone wrong, every session  *)
(* is in one call's hands, and a logout ends its sign-in because a sign-in *)
(* has one session in hand, or two that one call is exchanging (PanelInv). *)
(***************************************************************************)
EXTENDS Site, WellFoundedInduction, TLAPS

-----------------------------------------------------------------------------
(* One visit to the booking page (BookingWizard) *)

StepNames == {"service", "professional", "date"}

\* The page has no choices of its own before the catalog is there.
LoadingOK == loading => catalog = None /\ live = None /\ ~slotsOpen /\ fading = None

\* What each step needs was chosen.
ChosenOK ==
    /\ step \in StepNames
    /\ serviceId \in Wizard!Choices(Services) \cup {None}
    /\ professionalId \in Wizard!Choices(Professionals) \cup {None}
    /\ step = "date" => Wizard!bookingReady
    /\ step # "service" => serviceId # None
    /\ slotsOpen \in BOOLEAN
    /\ slotsOpen => Wizard!bookingReady

DayOK == selectedDate \in Days /\ selectedDate >= Today

AnswerOK(s) == s = Wizard!NoAnswer \/ (s.for \in Wizard!Query /\ s.at \in Wizard!Answer)

\* The query whose answer the effect wants is the one of the screen.
LiveOK ==
    /\ live # None => live = Wizard!CurrentQuery /\ slotsOpen
    /\ slotsLoading \in BOOLEAN
    /\ slotsOpen => (slotsLoading <=> live # None)
    /\ stale \subseteq Wizard!Query

\* With nothing to wait for the times are those of the screen.
SlotsOK ==
    /\ AnswerOK(slots)
    /\ slotsOpen /\ ~slotsLoading /\ slots # Wizard!NoAnswer =>
          slots.for = Wizard!CurrentQuery

\* The time chosen in an open overlay is one of them.
ChoiceOK ==
    /\ selectedSlot \in Wizard!Slot \cup {None}
    /\ step = "date" /\ slotsOpen /\ selectedSlot # None =>
          /\ ~slotsLoading
          /\ selectedSlot.for = Wizard!CurrentQuery
          /\ selectedSlot.time \in DOMAIN slots.at

Offered(f) ==
    f.slot.for = [service |-> Wizard!ToApiId(f.service), professional |-> Wizard!ToApiId(f.professional),
                  day |-> f.day]

\* While something fades out the overlay on the page is closed, or the page has
\* gone back to the professional; the button that fades was drawn with its time.
FadingOK ==
    fading # None =>
        /\ fading.step \in StepNames \cup {None}
        /\ {"step", "service", "professional", "day", "slots", "slot"} \subseteq DOMAIN fading
        /\ serviceId # None
        /\ fading.step = "date" => step = "professional"
        /\ fading.step # "date" => ~slotsOpen
        /\ AnswerOK(fading.slots)
        /\ fading.slot # None => Offered(fading)

WizardInv ==
    /\ catalog \in Catalogs \cup {None}
    /\ LoadingOK /\ ChosenOK /\ DayOK /\ LiveOK /\ SlotsOK /\ ChoiceOK /\ FadingOK
    /\ Wizard!ConfirmWasOffered

\* Nothing is none of the choices, queries and steps of the page.
LEMMA WizardConstants ==
    /\ None \notin Services \cup Professionals \cup {Unsure}
    /\ None \notin {"service", "professional", "date"}
    /\ None \notin [service : Services \cup {None}, professional : Professionals \cup {None},
                    day : Days]
    /\ Days \subseteq Nat /\ Today \in Days
  BY SiteAssumption DEF Wizard!BookingWizardAssumption

\* A step of the site is a step of this part or none, if the part is in play.
LEMMA WizardMoves ==
    ASSUME [SiteNext]_SiteVars, part' = "wizard"
    PROVE  part = "wizard" /\ [Wizard!Next]_(Wizard!vars)
  <1>1. CASE UNCHANGED SiteVars
    BY <1>1 DEF SiteVars, Wizard!vars, Wizard!page
  <1>2. CASE SiteNext
    BY <1>2 DEF SiteNext, WizardStep, BookingsStep, SessionStep
  <1> QED
    BY <1>1, <1>2

-----------------------------------------------------------------------------

LEMMA QueryTyped ==
    ASSUME NEW s \in Wizard!Choices(Services), NEW p \in Wizard!Choices(Professionals),
           NEW d \in Days
    PROVE  /\ [service |-> Wizard!ToApiId(s), professional |-> Wizard!ToApiId(p), day |-> d] \in Wizard!Query
           /\ [service |-> Wizard!ToApiId(s), professional |-> Wizard!ToApiId(p), day |-> d] # None
  <1>1. /\ Wizard!ToApiId(s) \in Services \cup {None}
        /\ Wizard!ToApiId(p) \in Professionals \cup {None}
    BY DEF Wizard!Choices, Wizard!ToApiId
  <1> QED BY <1>1, WizardConstants DEF Wizard!Query

\* What the effect of the slots leaves in flight is what the screen asks.
LEMMA EffectKeeps ==
    ASSUME LiveOK, ChosenOK, DayOK, ChosenOK', DayOK', Wizard!SlotsEffect
    PROVE  LiveOK'
  <1>1. CASE Wizard!deps' = Wizard!deps
    BY <1>1 DEF LiveOK, Wizard!SlotsEffect, Wizard!deps, Wizard!CurrentQuery
  <1>2. CASE Wizard!deps' # Wizard!deps
    <2>1. Wizard!Cancelled \subseteq Wizard!Query
      BY QueryTyped
         DEF Wizard!Cancelled, LiveOK, ChosenOK, DayOK, Wizard!CurrentQuery,
             Wizard!bookingReady
    <2>2. CASE slotsOpen' /\ Wizard!bookingReady'
      <3>1. Wizard!CurrentQuery' # None
        BY <2>2, QueryTyped
           DEF ChosenOK, DayOK, Wizard!CurrentQuery, Wizard!bookingReady
      <3> QED BY <1>2, <2>1, <2>2, <3>1 DEF Wizard!SlotsEffect, LiveOK
    <2>3. CASE ~(slotsOpen' /\ Wizard!bookingReady')
      BY <1>2, <2>1, <2>3 DEF Wizard!SlotsEffect, LiveOK, ChosenOK
    <2> QED BY <2>2, <2>3
  <1> QED BY <1>1, <1>2

\* The times on the page stay those of the screen or will be asked again.
LEMMA TimesKept ==
    ASSUME SlotsOK, ChosenOK', Wizard!SlotsEffect, slots' \in {slots, Wizard!NoAnswer}
    PROVE  SlotsOK'
  <1>1. AnswerOK(slots)'
    BY DEF SlotsOK, AnswerOK
  <1>2. CASE Wizard!deps' = Wizard!deps
    BY <1>1, <1>2 DEF SlotsOK, Wizard!SlotsEffect, Wizard!deps, Wizard!CurrentQuery
  <1>3. CASE Wizard!deps' # Wizard!deps
    BY <1>1, <1>3 DEF SlotsOK, Wizard!SlotsEffect, ChosenOK
  <1> QED BY <1>2, <1>3

\* What leaves the page is drawn as it was.
LEMMA SnapshotOK ==
    ASSUME LoadingOK, ChosenOK, SlotsOK, ChoiceOK, NEW s \in StepNames \cup {None}
    PROVE  /\ Wizard!Snapshot(s).step = s
           /\ {"step", "service", "professional", "day", "slots", "slot"} \subseteq DOMAIN Wizard!Snapshot(s)
           /\ AnswerOK(Wizard!Snapshot(s).slots)
           /\ Wizard!Snapshot(s).slot # None => Offered(Wizard!Snapshot(s))
  <1>1. Wizard!overlayShown => step = "date" /\ slotsOpen
    BY DEF Wizard!overlayShown
  <1>2. AnswerOK(Wizard!Snapshot(s).slots)
    BY DEF Wizard!Snapshot, AnswerOK, SlotsOK
  <1>3. Wizard!Snapshot(s).slot # None => Offered(Wizard!Snapshot(s))
    BY <1>1 DEF Wizard!Snapshot, Offered, ChoiceOK, Wizard!CurrentQuery
  <1> QED BY <1>2, <1>3 DEF Wizard!Snapshot

\* A handler of the step that is mounted keeps what fades apart from the page.
LEMMA FadeKeeps ==
    ASSUME WizardInv, ChosenOK', Wizard!Fade,
           NEW s \in StepNames, Wizard!Mounted(s),
           serviceId' # None,
           s # "date" => ~slotsOpen',
           s = "date" => step' \in {step, "professional"}
    PROVE  FadingOK'
  <1> USE DEF WizardInv
  <1>0. ChosenOK /\ FadingOK /\ None \notin StepNames
    BY WizardConstants DEF StepNames
  <1>1. CASE step' # step /\ fading = None
    <2>1. step = s /\ step \in StepNames
      BY <1>1 DEF Wizard!Mounted, ChosenOK
    <2>2. fading' = Wizard!Snapshot(step)
      BY <1>1 DEF Wizard!Fade
    <2>3. step = "date" => step' = "professional"
      BY <1>1, <2>1
    <2> QED BY <2>1, <2>2, <2>3, SnapshotOK DEF FadingOK, Offered, AnswerOK
  <1>2. CASE step' # step /\ fading # None /\ fading.step = None
    <2>1. step = s /\ step \in StepNames
      BY <1>2 DEF Wizard!Mounted, ChosenOK
    <2>2. fading' = [fading EXCEPT !.step = step]
      BY <1>2 DEF Wizard!Fade
    <2>3. step = "date" => step' = "professional"
      BY <1>2, <2>1
    <2>4. /\ fading'.step = step /\ DOMAIN fading' = DOMAIN fading
          /\ fading'.slots = fading.slots /\ fading'.slot = fading.slot
          /\ fading'.service = fading.service /\ fading'.day = fading.day
          /\ fading'.professional = fading.professional
      BY <1>0, <1>2, <2>2 DEF FadingOK
    <2> QED BY <1>0, <1>2, <2>1, <2>3, <2>4 DEF FadingOK, Offered, AnswerOK
  <1>3. CASE step' # step /\ fading # None /\ fading.step # None
    <2>1. fading' = fading /\ fading.step = s
      BY <1>3 DEF Wizard!Fade, Wizard!Mounted
    <2>2. s # "date"
      BY <1>0, <1>3, <2>1 DEF FadingOK
    <2> QED BY <1>0, <1>3, <2>1, <2>2 DEF FadingOK, Offered, AnswerOK
  <1>4. CASE step' = step /\ slotsOpen /\ ~slotsOpen' /\ fading = None
    <2>1. fading' = Wizard!Snapshot(None)
      BY <1>4 DEF Wizard!Fade
    <2> QED BY <1>0, <1>4, <2>1, SnapshotOK DEF FadingOK, Offered, AnswerOK, StepNames
  <1>5. CASE step' = step /\ ~(slotsOpen /\ ~slotsOpen' /\ fading = None)
    <2>1. CASE slotsOpen' /\ fading # None /\ fading.step = None
      BY <1>5, <2>1 DEF Wizard!Fade, FadingOK
    <2>2. CASE ~(slotsOpen' /\ fading # None /\ fading.step = None)
      <3>1. fading' = fading
        BY <1>5, <2>2 DEF Wizard!Fade
      <3>2. fading # None /\ fading.step # "date" => ~slotsOpen'
        BY <1>0, <2>2 DEF Wizard!Mounted
      <3> QED BY <1>0, <1>5, <3>1, <3>2 DEF FadingOK, Offered, AnswerOK
    <2> QED BY <2>1, <2>2
  <1> QED BY <1>1, <1>2, <1>3, <1>4, <1>5

LEMMA HandlerKeeps ==
    ASSUME WizardInv, Wizard!Handler, ChosenOK', DayOK',
           NEW s \in StepNames, Wizard!Mounted(s),
           serviceId' # None, selectedSlot' = None, slots' \in {slots, Wizard!NoAnswer},
           s # "date" => ~slotsOpen',
           s = "date" => step' \in {step, "professional"},
           pending' = pending
    PROVE  WizardInv'
  <1>1. LiveOK'
    BY EffectKeeps DEF WizardInv, Wizard!Handler
  <1>2. SlotsOK'
    BY TimesKept DEF WizardInv, Wizard!Handler
  <1>3. FadingOK'
    BY FadeKeeps DEF Wizard!Handler
  <1>4. LoadingOK' /\ ChoiceOK' /\ Wizard!ConfirmWasOffered'
    BY DEF WizardInv, Wizard!Handler, LoadingOK, ChoiceOK, Wizard!ConfirmWasOffered
  <1> QED BY <1>1, <1>2, <1>3, <1>4 DEF WizardInv, Wizard!Handler

\* The first open day is a day that is not over.
LEMMA JumpTyped ==
    ASSUME NEW cat, NEW day \in Days, NEW p, day >= Today
    PROVE  Wizard!JumpFrom(cat, day, p) \in Days /\ Wizard!JumpFrom(cat, day, p) >= Today
  <1> DEFINE open == {d \in Days : d >= Today /\ ~Wizard!IsClosedDay(cat, d, p)}
  <1>1. CASE open # {} /\ cat.weekdays # {} /\ Wizard!IsClosedDay(cat, day, p)
    <2>1. open \subseteq Nat
      BY WizardConstants
    <2>2. PICK d \in open : \A e \in open : <<e, d>> \notin OpToRel(<, Nat)
      <3>1. IsWellFoundedOn(OpToRel(<, Nat), Nat)
        BY NatLessThanWellFounded
      <3> HIDE DEF open
      <3> QED BY <1>1, <2>1, <3>1, WFMin
    <2>3. \A e \in open : d <= e
      <3> SUFFICES ASSUME NEW e \in open PROVE d <= e
        OBVIOUS
      <3>1. e \in Nat /\ d \in Nat /\ ~(e < d)
        BY <2>1, <2>2 DEF OpToRel
      <3> QED BY <3>1
    <2>4. Wizard!JumpFrom(cat, day, p) = CHOOSE e \in open : \A f \in open : e <= f
      BY <1>1 DEF Wizard!JumpFrom
    <2>5. Wizard!JumpFrom(cat, day, p) \in open
      BY <2>3, <2>4
    <2> QED BY <2>5
  <1>2. CASE ~(open # {} /\ cat.weekdays # {} /\ Wizard!IsClosedDay(cat, day, p))
    BY <1>2 DEF Wizard!JumpFrom
  <1> QED BY <1>1, <1>2

LEMMA WizardInit == Wizard!Init => WizardInv
  <1> SUFFICES ASSUME Wizard!Init PROVE WizardInv
    OBVIOUS
  <1>1. Today >= Today /\ Today \in Days
    BY WizardConstants
  <1>2. DayOK
    BY <1>1 DEF Wizard!Init, DayOK
  <1>3. LoadingOK /\ ChosenOK /\ FadingOK /\ Wizard!ConfirmWasOffered
    BY DEF Wizard!Init, LoadingOK, ChosenOK, FadingOK, Wizard!ConfirmWasOffered,
           StepNames
  <1>4. LiveOK /\ SlotsOK /\ ChoiceOK
    BY DEF Wizard!Init, LiveOK, SlotsOK, ChoiceOK, AnswerOK
  <1> QED BY <1>1, <1>2, <1>3, <1>4 DEF Wizard!Init, WizardInv

\* A page that is mounted anew knows nothing.
LEMMA MountKeeps ==
    ASSUME Wizard!Mount, Wizard!ConfirmWasOffered'
    PROVE  WizardInv'
  <1>1. Today >= Today
    BY WizardConstants
  <1> QED
    BY <1>1, WizardConstants
       DEF Wizard!Mount, WizardInv, LoadingOK, ChosenOK, DayOK, LiveOK, SlotsOK,
           ChoiceOK, FadingOK, AnswerOK, StepNames

LEMMA CatalogArrives ==
    ASSUME WizardInv, \/ \E cat \in Catalogs : Wizard!CatalogLoaded(cat)
                      \/ Wizard!CatalogFails
    PROVE  WizardInv'
  <1> USE DEF WizardInv
  <1>1. CASE Wizard!CatalogFails
    BY <1>1
       DEF Wizard!CatalogFails, LoadingOK, ChosenOK, Wizard!bookingReady, DayOK, LiveOK,
           SlotsOK, ChoiceOK, Wizard!CurrentQuery, FadingOK, Offered, AnswerOK,
           Wizard!ConfirmWasOffered
  <1>2. ASSUME NEW cat \in Catalogs, Wizard!CatalogLoaded(cat)
        PROVE  WizardInv'
    <2>1. DayOK'
      BY <1>2, JumpTyped DEF Wizard!CatalogLoaded, DayOK
    <2>2. ~slotsOpen /\ live = None /\ fading = None
      BY <1>2 DEF Wizard!CatalogLoaded, LoadingOK
    <2>3. LiveOK' /\ SlotsOK' /\ ChoiceOK' /\ FadingOK'
      BY <1>2, <2>2
         DEF Wizard!CatalogLoaded, LiveOK, SlotsOK, ChoiceOK, FadingOK, AnswerOK
    <2> QED
      BY <1>2, <2>1, <2>2, <2>3
         DEF Wizard!CatalogLoaded, LoadingOK, ChosenOK, Wizard!bookingReady,
             Wizard!ConfirmWasOffered
  <1> QED BY <1>1, <1>2

\* The handlers of the steps.
LEMMA ChooseStep ==
    ASSUME WizardInv,
           \/ \E s \in Wizard!Choices(Services) : Wizard!ChooseService(s)
           \/ \E p \in Wizard!Choices(Professionals) : Wizard!ChooseProfessional(p)
    PROVE  WizardInv'
  <1>1. ASSUME NEW s \in Wizard!Choices(Services), Wizard!ChooseService(s)
        PROVE  WizardInv'
    <2>1. s # None
      BY WizardConstants DEF Wizard!Choices
    <2>2. ChosenOK' /\ DayOK'
      BY <1>1, <2>1, WizardConstants
         DEF WizardInv, Wizard!ChooseService, ChosenOK, DayOK, StepNames,
             Wizard!bookingReady
    <2> QED BY <1>1, <2>1, <2>2, HandlerKeeps DEF Wizard!ChooseService, StepNames
  <1>2. ASSUME NEW p \in Wizard!Choices(Professionals), Wizard!ChooseProfessional(p)
        PROVE  WizardInv'
    <2>1. p # None
      BY WizardConstants DEF Wizard!Choices
    <2>2. serviceId # None
      BY <1>2, WizardConstants
         DEF WizardInv, ChosenOK, FadingOK, Wizard!ChooseProfessional, Wizard!Mounted
    <2>3. ChosenOK' /\ DayOK'
      BY <1>2, <2>1, <2>2
         DEF WizardInv, Wizard!ChooseProfessional, ChosenOK, DayOK, StepNames,
             Wizard!bookingReady
    <2> QED BY <1>2, <2>2, <2>3, HandlerKeeps DEF Wizard!ChooseProfessional, StepNames
  <1> QED BY <1>1, <1>2

LEMMA WizardBack ==
    ASSUME WizardInv, Wizard!BackToService \/ Wizard!BackToProfessional
    PROVE  WizardInv'
  <1>1. CASE Wizard!BackToService
    <2>1. serviceId # None
      BY <1>1, WizardConstants
         DEF WizardInv, ChosenOK, FadingOK, Wizard!BackToService, Wizard!Mounted
    <2>2. ChosenOK' /\ DayOK'
      BY <1>1, <2>1
         DEF WizardInv, Wizard!BackToService, ChosenOK, DayOK, StepNames,
             Wizard!bookingReady
    <2> QED BY <1>1, <2>1, <2>2, HandlerKeeps DEF Wizard!BackToService, StepNames
  <1>2. CASE Wizard!BackToProfessional
    <2>1. serviceId # None
      BY <1>2, WizardConstants
         DEF WizardInv, ChosenOK, FadingOK, Wizard!BackToProfessional, Wizard!Mounted
    <2>2. ChosenOK' /\ DayOK'
      BY <1>2, <2>1
         DEF WizardInv, Wizard!BackToProfessional, ChosenOK, DayOK, StepNames,
             Wizard!bookingReady
    <2> QED BY <1>2, <2>1, <2>2, HandlerKeeps DEF Wizard!BackToProfessional, StepNames
  <1> QED BY <1>1, <1>2

LEMMA DayStep ==
    ASSUME WizardInv, \/ \E day \in Days : Wizard!SelectDay(day)
                      \/ Wizard!CloseSlots
    PROVE  WizardInv'
  <1>1. ASSUME NEW day \in Days, Wizard!SelectDay(day)
        PROVE  WizardInv'
    <2>1. ChosenOK' /\ DayOK' /\ serviceId # None
      BY <1>1
         DEF WizardInv, Wizard!SelectDay, ChosenOK, DayOK, Wizard!bookingReady,
             Wizard!Selectable
    <2> QED BY <1>1, <2>1, HandlerKeeps DEF Wizard!SelectDay, StepNames
  <1>2. CASE Wizard!CloseSlots
    <2>1. ChosenOK' /\ DayOK' /\ serviceId # None
      BY <1>2 DEF WizardInv, Wizard!CloseSlots, ChosenOK, DayOK, Wizard!bookingReady
    <2> QED BY <1>2, <2>1, HandlerKeeps DEF Wizard!CloseSlots, StepNames
  <1> QED BY <1>1, <1>2

\* A time is chosen from those of the screen, or from those that fade out
\* after the overlay was closed.
LEMMA TimeStep ==
    ASSUME WizardInv, NEW t \in Times, Wizard!SelectSlot(t) \/ Wizard!SelectFadingSlot(t)
    PROVE  WizardInv'
  <1> USE DEF WizardInv
  <1>1. CASE Wizard!SelectSlot(t)
    <2>1. step = "date" /\ slotsOpen /\ ~slotsLoading
      BY <1>1 DEF Wizard!SelectSlot, Wizard!gridShown, Wizard!overlayShown
    <2>2. slots # Wizard!NoAnswer
      BY <1>1 DEF Wizard!SelectSlot, Wizard!NoAnswer
    <2>3. slots.for = Wizard!CurrentQuery /\ slots.for \in Wizard!Query
      BY <2>1, <2>2 DEF SlotsOK, AnswerOK
    <2>4. ChoiceOK'
      BY <1>1, <2>1, <2>3
         DEF Wizard!SelectSlot, ChoiceOK, Wizard!Slot, Wizard!CurrentQuery
    <2> QED
      BY <1>1, <2>4
         DEF Wizard!SelectSlot, LoadingOK, ChosenOK, Wizard!bookingReady, DayOK, LiveOK,
             SlotsOK, Wizard!CurrentQuery, FadingOK, Offered, AnswerOK,
             Wizard!ConfirmWasOffered
  <1>2. CASE Wizard!SelectFadingSlot(t)
    <2>1. ~(step = "date" /\ slotsOpen)
      BY <1>2, WizardConstants DEF Wizard!SelectFadingSlot, FadingOK
    <2>2. fading.slots # Wizard!NoAnswer
      BY <1>2 DEF Wizard!SelectFadingSlot, Wizard!NoAnswer
    <2>3. fading.slots.for \in Wizard!Query
      BY <1>2, <2>2 DEF Wizard!SelectFadingSlot, FadingOK, AnswerOK
    <2>4. ChoiceOK'
      BY <1>2, <2>1, <2>3 DEF Wizard!SelectFadingSlot, ChoiceOK, Wizard!Slot
    <2> QED
      BY <1>2, <2>4
         DEF Wizard!SelectFadingSlot, LoadingOK, ChosenOK, Wizard!bookingReady, DayOK,
             LiveOK, SlotsOK, Wizard!CurrentQuery, FadingOK, Offered, AnswerOK,
             Wizard!ConfirmWasOffered
  <1> QED BY <1>1, <1>2

LEMMA OverlayCloses ==
    ASSUME \/ WizardInv, Wizard!ConfirmWithGoogle
           \/ Wizard!ConfirmFading
           \/ Wizard!Reload
           \/ Wizard!Return
    PROVE  WizardInv'
  <1> USE DEF WizardInv
  <1>1. CASE Wizard!ConfirmWithGoogle
    <2>1. selectedSlot.for = Wizard!CurrentQuery
      BY <1>1 DEF Wizard!ConfirmWithGoogle, Wizard!overlayShown, ChoiceOK
    <2> QED
      BY <1>1, <2>1, MountKeeps
         DEF Wizard!ConfirmWithGoogle, Wizard!ConfirmWasOffered, Wizard!CurrentQuery
  <1>2. CASE Wizard!ConfirmFading
    <2>1. Offered(fading)
      BY <1>2 DEF Wizard!ConfirmFading, FadingOK
    <2> QED
      BY <1>2, <2>1, MountKeeps
         DEF Wizard!ConfirmFading, Wizard!ConfirmWasOffered, Offered
  <1>3. CASE Wizard!Reload
    BY <1>3, MountKeeps DEF Wizard!Reload, Wizard!ConfirmWasOffered
  <1>4. CASE Wizard!Return
    BY <1>4, MountKeeps DEF Wizard!Return, Wizard!ConfirmWasOffered
  <1> QED BY <1>1, <1>2, <1>3, <1>4

LEMMA FadeEndsStep ==
    ASSUME WizardInv, Wizard!FadeEnds
    PROVE  WizardInv'
  BY DEF WizardInv, Wizard!FadeEnds, Wizard!page, LoadingOK, ChosenOK,
         Wizard!bookingReady, DayOK, LiveOK, SlotsOK, ChoiceOK, Wizard!CurrentQuery,
         FadingOK, AnswerOK, Wizard!ConfirmWasOffered

\* The answers.
LEMMA AnswerStep ==
    ASSUME WizardInv,
           \/ \E a \in Wizard!Answer : Wizard!SlotsAnswered(a)
           \/ Wizard!SlotsFail
           \/ \E q \in stale, a \in Wizard!Answer : Wizard!StaleAnswered(q, a)
    PROVE  WizardInv'
  <1> USE DEF WizardInv
  <1>1. ASSUME NEW a \in Wizard!Answer, Wizard!SlotsAnswered(a)
        PROVE  WizardInv'
    <2>1. live = Wizard!CurrentQuery /\ slotsOpen /\ slotsLoading /\ Wizard!bookingReady
      BY <1>1 DEF Wizard!SlotsAnswered, LiveOK, ChosenOK
    <2>2. Wizard!CurrentQuery \in Wizard!Query
      BY <2>1, QueryTyped DEF ChosenOK, DayOK, Wizard!bookingReady, Wizard!CurrentQuery
    <2>3. SlotsOK'
      BY <1>1, <2>1, <2>2
         DEF Wizard!SlotsAnswered, SlotsOK, AnswerOK, Wizard!CurrentQuery
    <2>4. ChoiceOK'
      BY <1>1, <2>1 DEF Wizard!SlotsAnswered, ChoiceOK
    <2>5. LiveOK'
      BY <1>1 DEF Wizard!SlotsAnswered, LiveOK
    <2> QED
      BY <1>1, <2>3, <2>4, <2>5
         DEF Wizard!SlotsAnswered, LoadingOK, ChosenOK, Wizard!bookingReady, DayOK,
             FadingOK, Offered, AnswerOK, Wizard!ConfirmWasOffered
  <1>2. CASE Wizard!SlotsFail
    <2>1. slotsOpen /\ slotsLoading
      BY <1>2 DEF Wizard!SlotsFail, LiveOK
    <2>2. ChoiceOK'
      BY <1>2, <2>1 DEF Wizard!SlotsFail, ChoiceOK
    <2> QED
      BY <1>2, <2>2
         DEF Wizard!SlotsFail, LoadingOK, ChosenOK, Wizard!bookingReady, DayOK, LiveOK,
             SlotsOK, FadingOK, Offered, AnswerOK, Wizard!ConfirmWasOffered
  <1>3. ASSUME NEW q \in stale, NEW a \in Wizard!Answer, Wizard!StaleAnswered(q, a)
        PROVE  WizardInv'
    BY <1>3
       DEF Wizard!StaleAnswered, Wizard!page, LoadingOK, ChosenOK, Wizard!bookingReady,
           DayOK, LiveOK, SlotsOK, ChoiceOK, Wizard!CurrentQuery, FadingOK, Offered,
           AnswerOK, Wizard!ConfirmWasOffered
  <1> QED BY <1>1, <1>2, <1>3

LEMMA WizardNext == WizardInv /\ [Wizard!Next]_(Wizard!vars) => WizardInv'
  <1> SUFFICES ASSUME WizardInv, [Wizard!Next]_(Wizard!vars) PROVE WizardInv'
    OBVIOUS
  <1>1. CASE UNCHANGED Wizard!vars
    BY <1>1
       DEF Wizard!vars, Wizard!page, WizardInv, LoadingOK, ChosenOK,
           Wizard!bookingReady, DayOK, LiveOK, SlotsOK, ChoiceOK, Wizard!CurrentQuery,
           FadingOK, Offered, AnswerOK, Wizard!ConfirmWasOffered
  <1>2. CASE Wizard!Next
    BY <1>2, CatalogArrives, ChooseStep, WizardBack, DayStep, TimeStep, OverlayCloses,
       FadeEndsStep, AnswerStep
    DEF Wizard!Next
  <1> QED BY <1>1, <1>2

LEMMA WizardImplies == WizardInv => Wizard!TypeOK /\ Wizard!GridIsForTheChoice
  <1> SUFFICES ASSUME WizardInv PROVE Wizard!TypeOK /\ Wizard!GridIsForTheChoice
    OBVIOUS
  <1> USE DEF WizardInv
  <1>1. live \in Wizard!Query \cup {None}
    BY QueryTyped DEF LiveOK, ChosenOK, DayOK, Wizard!bookingReady, Wizard!CurrentQuery
  <1>2. Wizard!TypeOK
    BY <1>1
       DEF Wizard!TypeOK, LoadingOK, ChosenOK, DayOK, LiveOK, SlotsOK, ChoiceOK,
           FadingOK, AnswerOK, StepNames
  <1>3. Wizard!GridIsForTheChoice
    BY DEF Wizard!GridIsForTheChoice, Wizard!gridShown, Wizard!overlayShown, SlotsOK,
           ChoiceOK, LiveOK
  <1> QED BY <1>2, <1>3

\* The invariant, of the component and of the part in the site.
LEMMA WizardAlways ==
    /\ Wizard!Spec => []WizardInv
    /\ SiteSpec => [](part = "wizard" => WizardInv)
  <1> DEFINE Inv == part = "wizard" => WizardInv
  <1>1. Wizard!Spec => []WizardInv
    BY WizardInit, WizardNext, PTL DEF Wizard!Spec
  <1>2. SiteInit => Inv
    BY WizardInit DEF SiteInit
  <1>3. Inv /\ [SiteNext]_SiteVars => Inv'
    BY WizardNext, WizardMoves
  <1>4. SiteSpec => []Inv
    BY <1>2, <1>3, PTL DEF SiteSpec
  <1> QED
    BY <1>1, <1>4

\* The times on the screen are those of the choice on the screen: an answer that
\* was overtaken is dropped, and the page searches only while an answer it will
\* take is under way (booking-wizard.tsx:203-235).
THEOREM GridTruthful ==
    /\ Wizard!Spec => []Wizard!GridIsForTheChoice
    /\ SiteSpec => []GridIsForTheChoice
  <1>1. WizardInv => Wizard!GridIsForTheChoice
    BY WizardImplies
  <1>2. (part = "wizard" => WizardInv) => GridIsForTheChoice
    BY <1>1 DEF GridIsForTheChoice
  <1> QED
    BY <1>1, <1>2, WizardAlways, PTL

\* What is taken to Google was offered for that service, professional and day,
\* also from the button that is still fading out (booking-wizard.tsx:237-248).
THEOREM ConfirmOffered ==
    /\ Wizard!Spec => []Wizard!ConfirmWasOffered
    /\ SiteSpec => []ConfirmWasOffered
  <1>1. WizardInv => Wizard!ConfirmWasOffered
    BY DEF WizardInv
  <1>2. (part = "wizard" => WizardInv) => ConfirmWasOffered
    BY <1>1 DEF ConfirmWasOffered
  <1> QED
    BY <1>1, <1>2, WizardAlways, PTL

\* The choices, the times and what fades keep their types.
LEMMA WizardTyped == SiteSpec => [](part = "wizard" => Wizard!TypeOK)
  <1>1. WizardInv => Wizard!TypeOK
    BY WizardImplies
  <1> QED
    BY <1>1, WizardAlways, PTL

-----------------------------------------------------------------------------
(* The tabs of a customer and their cookie (BookingTabs) *)

Confirm ==
    [tab : Tabs, ask : 1..asks, token : 1..tokens,
     pc : {"sent", "valid", "booked", "done"}, id : Ids \cup {None}, heard : BOOLEAN]

Cancel ==
    [tab : Tabs, id : Ids, no : 1..MaxRequests, pc : {"sent", "done", "refused"},
     heard : BOOLEAN]

Sync == [pc : {"none", "sent", "back"}, asked : SUBSET Ids, seen : SUBSET Bookings!Summary]

Script ==
    [pc : {"free", "get", "set"}, edits : SUBSET Bookings!Edit,
     got : SUBSET Bookings!Summary, then : {"list", "forget"}]

Tab ==
    [page : {"wizard", "google", "callback"}, list : SUBSET Bookings!Summary,
     cancelling : Ids \cup {None}, saved : 0..asks, token : 1..tokens \cup {None},
     task : Script, sync : Sync]

TabTypes ==
    /\ appts \in [Ids -> Bookings!Statuses \cup {"free"}]
    /\ asks \in Nat /\ tokens \in Nat
    /\ tab \in [Tabs -> Tab]
    /\ confirms \subseteq Confirm /\ cancels \subseteq Cancel
    /\ used \subseteq 1..tokens /\ askOf \in [Ids -> 0..asks]

\* A page that left the wizard hears no answer of its list any more, and the page
\* Google returns to has a token in its address.
PagesOK ==
    \A t \in Tabs :
        /\ tab[t].page # "wizard" => tab[t].sync = Bookings!NoSync
        /\ tab[t].page = "callback" => tab[t].token \in 1..tokens

\* What an entry says, or what is done to one: its appointment was made, and one
\* that is shown as cancelled or taken out is cancelled and stays so.
Told(b) ==
    /\ appts[b.id] # "free"
    /\ b.status # "active" => appts[b.id] = "cancelled"

OneEach(items) == \A b, c \in items : b.id = c.id => b = c

\* Entries of appointments that were made, one each.
Entries(items) ==
    items \subseteq Bookings!Summary /\ OneEach(items) /\ \A b \in items : Told(b)

\* What a tab shows, asks about, has read and still has to write.
ListOK(x) ==
    /\ \A b \in x.list : Told(b)
    /\ Entries(x.sync.seen)
    /\ \A i \in x.sync.asked : appts[i] # "free"
    /\ Entries(x.task.got)
    /\ \A e \in x.task.edits : Told(e)

EntriesOK == Entries(cookie) /\ \A t \in Tabs : ListOK(tab[t])

\* An answer that takes an entry out of the cookie is of a cancelled booking.
AnswersOK ==
    /\ \A r \in cancels : r.pc = "done" => appts[r.id] = "cancelled"
    /\ \A r \in confirms : r.pc \in {"booked", "done"} => r.id \in Ids /\ appts[r.id] # "free"
    /\ owned \subseteq Ids
    /\ \A i \in owned : appts[i] = "active"

\* A tab waits for at most one confirmation: the one of the booking it took to
\* Google, on the page that sent it.
WaitOK ==
    /\ \A r \in confirms : ~r.heard => r.ask \in lostAsks
    /\ \A r \in confirms : r.pc = "done" => r.heard
    /\ \A r \in confirms : r.heard => /\ tab[r.tab].page = "callback"
                                      /\ tab[r.tab].saved = r.ask
    /\ \A r, q \in confirms : r.heard /\ q.heard /\ r.tab = q.tab => r = q

\* A booking is taken to Google by one tab.
SavedOK == \A t, u \in Tabs : tab[t].saved # 0 /\ tab[t].saved = tab[u].saved => t = u

\* A tab that is about to forget what it took to Google waits for no confirmation.
ForgetOK ==
    \A t \in Tabs : tab[t].task.then = "forget" =>
        tab[t].task.pc = "set" /\ \A r \in confirms : r.heard => r.tab # t

\* Who booked either waits for the answer of that very request, or has it and is about
\* to forget what it took to Google, or has forgotten it.
Settled(ask) ==
    \/ \E r \in confirms : r.pc \in {"booked", "done"} /\ r.ask = ask
    \/ \E t \in Tabs : tab[t].task.then = "forget" /\ tab[t].saved = ask
    \/ \A t \in Tabs : tab[t].saved # ask

BookedOK ==
    \A i \in Ids : askOf[i] # 0 /\ askOf[i] \notin lostAsks \cup failedAsks => Settled(askOf[i])

TabsInv ==
    /\ TabTypes /\ PagesOK /\ EntriesOK /\ AnswersOK
    /\ WaitOK /\ SavedOK /\ ForgetOK /\ BookedOK
    /\ Bookings!LiveBookingKept /\ Bookings!BookedOncePerAsk

\* A step of the site is a step of this part or none, if the part is in play.
LEMMA BookingsMoves ==
    ASSUME [SiteNext]_SiteVars, part' = "tabs"
    PROVE  part = "tabs" /\ [Bookings!Next]_(Bookings!vars)
  <1>1. CASE UNCHANGED SiteVars
    BY <1>1 DEF SiteVars, Bookings!vars, Bookings!server
  <1>2. CASE SiteNext
    BY <1>2 DEF SiteNext, WizardStep, BookingsStep, SessionStep
  <1> QED
    BY <1>1, <1>2

-----------------------------------------------------------------------------
(* The cookie's entries *)

\* An edit loses no entry but its own, and that only when it takes it out.
LEMMA EditedOK ==
    ASSUME NEW items, Entries(items), NEW e \in Bookings!Edit, Told(e)
    PROVE  /\ Entries(Bookings!Edited(items, e))
           /\ Bookings!IdsOf(items) \ {e.id} \subseteq Bookings!IdsOf(Bookings!Edited(items, e))
           /\ e.status # "gone" => e.id \in Bookings!IdsOf(Bookings!Edited(items, e))
  <1>1. e.status # "gone" => e \in Bookings!Summary
    BY DEF Bookings!Edit, Bookings!Summary
  <1> DEFINE new == Bookings!Edited(items, e)
  <1>2. \A c \in new : (c \in items /\ c.id # e.id) \/ (c = e /\ e \in Bookings!Summary)
    BY DEF Bookings!Edited
  <1>3. /\ \A c \in items : c.id # e.id => c \in new
        /\ e \in Bookings!Summary => e \in new
    BY DEF Bookings!Edited
  <1> HIDE DEF new
  <1>4. Entries(new)
    BY <1>2 DEF Entries, OneEach
  <1>5. Bookings!IdsOf(items) \ {e.id} \subseteq Bookings!IdsOf(new)
    BY <1>3 DEF Bookings!IdsOf
  <1>6. e.status # "gone" => e.id \in Bookings!IdsOf(new)
    BY <1>1, <1>3 DEF Bookings!IdsOf
  <1> QED BY <1>4, <1>5, <1>6 DEF new

\* What is written is one of these.
LEMMA WrittenOK ==
    ASSUME NEW items, NEW new \in Bookings!Written(items)
    PROVE  new = items \/ new = cookie
  BY DEF Bookings!Written

\* A script that starts.
LEMMA TaskOK ==
    ASSUME Entries(cookie), NEW edits \in SUBSET Bookings!Edit, \A e \in edits : Told(e),
           NEW then \in {"list", "forget"}
    PROVE  LET task == Bookings!Task(edits, then)
           IN  /\ task \in Script /\ task.pc = "set" /\ task.then = then
               /\ Entries(task.got) /\ \A e \in task.edits : Told(e)
  BY DEF Bookings!Task, Script, Entries

LEMMA NothingOK ==
    /\ Entries({})
    /\ Bookings!NoSync \in Sync /\ Entries(Bookings!NoSync.seen)
    /\ Bookings!NoSync.asked = {}
    /\ Bookings!NoTask \in Script /\ Bookings!NoTask.got = {} /\ Bookings!NoTask.edits = {}
    /\ Bookings!NoTask.then = "list"
  BY DEF Entries, OneEach, Bookings!NoSync, Sync, Bookings!NoTask, Script

-----------------------------------------------------------------------------
(* The entries *)

\* Bookings that were made stay so, and what is cancelled stays cancelled.
LEMMA ServerMoves ==
    ASSUME TabTypes, EntriesOK, cookie' = cookie, tab' = tab,
           \A i \in Ids : /\ appts[i] # "free" => appts'[i] # "free"
                          /\ appts[i] = "cancelled" => appts'[i] = "cancelled"
    PROVE  EntriesOK'
  <1>1. \A b : b.id \in Ids /\ Told(b) => Told(b)'
    BY DEF Told
  <1>2. \A items : Entries(items) => Entries(items)'
    BY <1>1 DEF Entries, OneEach, Bookings!Summary
  <1>3. ASSUME NEW t \in Tabs PROVE ListOK(tab[t])'
    <2>1. /\ tab[t].list \subseteq Bookings!Summary /\ tab[t].sync.asked \subseteq Ids
          /\ tab[t].task.edits \subseteq Bookings!Edit
      BY DEF TabTypes, Tab, Sync, Script
    <2>2. ListOK(tab[t])
      BY DEF EntriesOK
    <2>3. \A b \in tab[t].list : Told(b)'
      BY <1>1, <2>1, <2>2 DEF ListOK, Bookings!Summary
    <2>4. \A e \in tab[t].task.edits : Told(e)'
      BY <1>1, <2>1, <2>2 DEF ListOK, Bookings!Edit
    <2>5. \A i \in tab[t].sync.asked : appts'[i] # "free"
      BY <2>1, <2>2 DEF ListOK
    <2>6. Entries(tab[t].sync.seen)' /\ Entries(tab[t].task.got)'
      <3>1. Entries(tab[t].sync.seen) /\ Entries(tab[t].task.got)
        BY <2>2 DEF ListOK
      <3> QED BY <1>2, <3>1
    <2> QED BY <2>3, <2>4, <2>5, <2>6 DEF ListOK
  <1>4. Entries(cookie)'
    BY <1>2 DEF EntriesOK
  <1> QED BY <1>3, <1>4 DEF EntriesOK

\* One tab and the cookie change.
LEMMA TabMoves ==
    ASSUME EntriesOK, UNCHANGED appts, NEW t \in Tabs, NEW new, NEW x,
           cookie' = new, Entries(new), tab'[t] = x, ListOK(x),
           \A u \in Tabs \ {t} : tab'[u] = tab[u]
    PROVE  EntriesOK'
  <1>1. Entries(cookie)'
    BY DEF Entries, OneEach, Told
  <1>2. ListOK(tab[t])'
    BY DEF ListOK, Entries, OneEach, Told
  <1>3. ASSUME NEW u \in Tabs \ {t} PROVE ListOK(tab[u])'
    BY <1>3 DEF EntriesOK, ListOK, Entries, OneEach, Told
  <1> QED BY <1>1, <1>2, <1>3 DEF EntriesOK

\* A tab that reads its bookings off the cookie.
LEMMA OnWizardOK ==
    ASSUME TabTypes, NEW t \in Tabs, NEW items, Entries(items)
    PROVE  LET w == Bookings!OnWizard(t, items)
           IN  /\ w \in Tab /\ w.page = "wizard" /\ w.saved = tab[t].saved
               /\ w.task.then = "list" /\ ListOK(w)
  <1> DEFINE w == Bookings!OnWizard(t, items)
  <1>1. /\ Bookings!IdsOf(items) \subseteq Ids
        /\ \A i \in Bookings!IdsOf(items) : appts[i] # "free"
    BY DEF Entries, Bookings!IdsOf, Bookings!Summary, Told
  <1>2. tab[t].saved \in 0..asks /\ tab[t].token \in 1..tokens \cup {None}
    BY DEF TabTypes, Tab
  <1>3. /\ w.sync \in Sync /\ w.sync.seen = {}
        /\ w.sync.asked \subseteq Bookings!IdsOf(items)
        /\ w.task = Bookings!NoTask /\ w.list = items
        /\ w.page = "wizard" /\ w.saved = tab[t].saved
    BY <1>1 DEF Bookings!OnWizard, Sync, Bookings!NoSync
  <1>4. w \in Tab
    BY <1>2, <1>3, NothingOK DEF Bookings!OnWizard, Tab, Entries
  <1>5. \A b \in w.list : Told(b)
    BY <1>3 DEF Entries
  <1> HIDE DEF w
  <1>6. ListOK(w)
    BY <1>1, <1>3, <1>5, NothingOK DEF ListOK
  <1> QED BY <1>3, <1>4, <1>6, NothingOK DEF w

-----------------------------------------------------------------------------
(* The steps of one tab *)

\* A tab that stays on its page goes on, and the cancellations with it.
LEMMA OneTab ==
    ASSUME TabsInv, NEW t \in Tabs, NEW x \in Tab, ListOK(x),
           tab' = [tab EXCEPT ![t] = x],
           x.page = tab[t].page, x.saved = tab[t].saved, x.token = tab[t].token,
           x.page # "wizard" => x.sync = Bookings!NoSync,
           \/ x.task = tab[t].task
           \/ x.task.then = "list" /\ tab[t].task.then = "list",
           UNCHANGED <<appts, used, askOf, cookie, confirms, asks, tokens, lostAsks,
                       failedAsks, owned, torn>>,
           cancels' \subseteq Cancel,
           \A r \in cancels' : r.pc = "done" => appts[r.id] = "cancelled"
    PROVE  TabsInv'
  <1> USE DEF TabsInv
  <1>1. /\ tab'[t] = x /\ \A u \in Tabs \ {t} : tab'[u] = tab[u]
        /\ tab' \in [Tabs -> Tab]
    BY DEF TabTypes
  <1>2. TabTypes'
    BY <1>1 DEF TabTypes, Tab, Confirm
  <1>3. PagesOK'
    BY <1>1 DEF PagesOK
  <1>4. EntriesOK'
    BY <1>1, TabMoves DEF EntriesOK
  <1>5. AnswersOK' /\ Bookings!LiveBookingKept'
    BY DEF AnswersOK, Bookings!LiveBookingKept
  <1>6. \A r \in confirms : r.tab \in Tabs
    BY DEF TabTypes, Confirm
  <1>7. \A u \in Tabs : tab'[u].page = tab[u].page /\ tab'[u].saved = tab[u].saved
    BY <1>1
  <1>8. \A u \in Tabs : tab'[u].task.then = tab[u].task.then
    BY <1>1
  <1>9. WaitOK' /\ SavedOK'
    BY <1>6, <1>7 DEF WaitOK, SavedOK
  <1>10. ForgetOK'
    BY <1>1, <1>8 DEF ForgetOK
  <1>11. BookedOK' /\ Bookings!BookedOncePerAsk'
    BY <1>7, <1>8 DEF BookedOK, Settled, Bookings!BookedOncePerAsk
  <1> QED BY <1>2, <1>3, <1>4, <1>5, <1>9, <1>10, <1>11

\* No script is running, or one that reads the cookie: it has nothing to forget.
LEMMA NothingToForget ==
    ASSUME TabsInv, NEW t \in Tabs, tab[t].task.pc # "set"
    PROVE  tab[t].task.then = "list"
  BY DEF TabsInv, ForgetOK, TabTypes, Tab, Script

LEMMA SyncStep ==
    ASSUME TabsInv, NEW t \in Tabs,
           \/ Bookings!SyncAtServer(t)
           \/ Bookings!SyncApplied(t)
           \/ Bookings!SyncFails(t)
    PROVE  TabsInv'
  <1> USE DEF TabsInv
  <1>1. /\ tab \in [Tabs -> Tab] /\ tab[t] \in Tab /\ tab[t].sync \in Sync
        /\ Entries(cookie) /\ ListOK(tab[t]) /\ cancels \subseteq Cancel
        /\ \A r \in cancels : r.pc = "done" => appts[r.id] = "cancelled"
    BY DEF TabTypes, Tab, EntriesOK, AnswersOK
  <1>2. UNCHANGED <<appts, used, askOf, cookie, confirms, cancels, asks, tokens, lostAsks,
                    failedAsks, owned, torn>>
    BY DEF Bookings!SyncAtServer, Bookings!SyncApplied, Bookings!SyncFails, Bookings!server
  <1>3. ASSUME NEW sync \in Sync, tab[t].page # "wizard" => sync = Bookings!NoSync,
               Entries(sync.seen), sync.asked = {},
               NEW task \in Script, Entries(task.got), \A e \in task.edits : Told(e),
               \/ task = tab[t].task
               \/ task.then = "list" /\ tab[t].task.then = "list",
               tab' = [tab EXCEPT ![t].task = task, ![t].sync = sync]
        PROVE  TabsInv'
    <2> DEFINE x == [tab[t] EXCEPT !.task = task, !.sync = sync]
    <2>1. tab' = [tab EXCEPT ![t] = x]
      BY <1>1, <1>3
    <2>2. /\ x \in Tab /\ x.list = tab[t].list /\ x.sync = sync /\ x.task = task
          /\ x.page = tab[t].page /\ x.saved = tab[t].saved /\ x.token = tab[t].token
      BY <1>1, <1>3 DEF Tab
    <2> HIDE DEF x
    <2>3. ListOK(x)
      BY <1>1, <1>3, <2>2 DEF ListOK
    <2> QED BY <1>1, <1>2, <1>3, <2>1, <2>2, <2>3, OneTab
  <1>4. /\ tab[t].task \in Script /\ Entries(tab[t].task.got)
        /\ \A e \in tab[t].task.edits : Told(e)
    BY <1>1 DEF Tab, ListOK
  <1>5. CASE Bookings!SyncAtServer(t)
    <2> DEFINE seen == {[id |-> i, status |-> appts[i]] : i \in tab[t].sync.asked}
    <2>1. tab[t].sync.asked \subseteq Ids /\ \A i \in tab[t].sync.asked : appts[i] # "free"
      BY <1>1 DEF Sync, ListOK
    <2>2. Entries(seen)
      <3>1. \A i \in Ids : appts[i] # "free" => appts[i] \in Bookings!Statuses
        BY DEF TabTypes
      <3>2. \A b \in seen : b \in Bookings!Summary /\ appts[b.id] # "free" /\ b.status = appts[b.id]
        BY <2>1, <3>1 DEF Bookings!Summary
      <3>3. OneEach(seen)
        BY DEF OneEach
      <3> HIDE DEF seen
      <3>4. \A b \in seen : Told(b)
        BY <3>2 DEF Told, Bookings!Summary, Bookings!Statuses
      <3> QED BY <3>2, <3>3, <3>4 DEF Entries
    <2> HIDE DEF seen
    <2> DEFINE sync == [pc |-> "back", asked |-> {}, seen |-> seen]
    <2>3. sync \in Sync /\ Entries(sync.seen) /\ sync.asked = {}
      BY <2>2 DEF Sync, Entries
    <2>4. tab[t].page = "wizard"
      BY <1>5 DEF Bookings!SyncAtServer, PagesOK, Bookings!NoSync
    <2>5. tab' = [tab EXCEPT ![t].sync = sync]
      BY <1>5 DEF Bookings!SyncAtServer, seen
    <2> HIDE DEF sync
    <2>6. tab' = [tab EXCEPT ![t].task = tab[t].task, ![t].sync = sync]
      BY <1>1, <2>5 DEF Tab
    <2> QED BY <1>3, <1>4, <2>3, <2>4, <2>6
  <1>6. CASE Bookings!SyncApplied(t)
    <2> DEFINE task == Bookings!Task(tab[t].sync.seen, "list")
    <2>1. tab[t].sync.seen \subseteq Bookings!Edit
      BY <1>1 DEF Sync, Bookings!Summary, Bookings!Edit
    <2>2. /\ task \in Script /\ task.then = "list" /\ Entries(task.got)
          /\ \A e \in task.edits : Told(e)
      BY <1>1, <2>1, TaskOK DEF ListOK, Entries
    <2>3. tab' = [tab EXCEPT ![t].task = task, ![t].sync = Bookings!NoSync]
      BY <1>6 DEF Bookings!SyncApplied
    <2>4. tab[t].task.then = "list"
      BY <1>6, NothingToForget DEF Bookings!SyncApplied, Bookings!Free
    <2> HIDE DEF task
    <2> QED BY <1>3, <2>2, <2>3, <2>4, NothingOK
  <1>7. CASE Bookings!SyncFails(t)
    <2>1. tab' = [tab EXCEPT ![t].task = tab[t].task, ![t].sync = Bookings!NoSync]
      BY <1>1, <1>7 DEF Bookings!SyncFails, Tab
    <2> QED BY <1>3, <1>4, <2>1, NothingOK
  <1> QED BY <1>5, <1>6, <1>7

\* The list is read again, or the cookie for the next edit.
LEMMA ReadStep ==
    ASSUME TabsInv, NEW t \in Tabs, Bookings!ReadCookie(t)
    PROVE  TabsInv'
  <1> USE DEF TabsInv
  <1>1. /\ tab \in [Tabs -> Tab] /\ tab[t] \in Tab /\ tab[t].task \in Script
        /\ Entries(cookie) /\ ListOK(tab[t]) /\ cancels \subseteq Cancel
        /\ \A r \in cancels : r.pc = "done" => appts[r.id] = "cancelled"
    BY DEF TabTypes, Tab, EntriesOK, AnswersOK
  <1>2. UNCHANGED <<appts, used, askOf, cookie, confirms, cancels, asks, tokens, lostAsks,
                    failedAsks, owned, torn>>
    BY DEF Bookings!ReadCookie, Bookings!server
  <1>3. tab[t].task.then = "list" /\ (tab[t].page # "wizard" => tab[t].sync = Bookings!NoSync)
    BY NothingToForget DEF Bookings!ReadCookie, PagesOK
  <1>4. PICK list \in {cookie, tab[t].list}, task \in Script :
           /\ tab' = [tab EXCEPT ![t].list = list, ![t].task = task]
           /\ task.then = "list" /\ Entries(task.got) /\ \A e \in task.edits : Told(e)
    <2>1. CASE tab[t].task.edits = {}
      <3>1. tab' = [tab EXCEPT ![t].list = cookie, ![t].task = Bookings!NoTask]
        BY <1>1, <2>1 DEF Bookings!ReadCookie, Tab
      <3> QED BY <3>1, NothingOK
    <2>2. CASE tab[t].task.edits # {}
      <3> DEFINE task == Bookings!Task(tab[t].task.edits, "list")
      <3>1. /\ task \in Script /\ task.then = "list" /\ Entries(task.got)
            /\ \A e \in task.edits : Told(e)
        BY <1>1, TaskOK DEF ListOK, Script
      <3>2. tab' = [tab EXCEPT ![t].task = task]
        BY <2>2 DEF Bookings!ReadCookie
      <3> HIDE DEF task
      <3>3. tab' = [tab EXCEPT ![t].list = tab[t].list, ![t].task = task]
        BY <1>1, <3>2 DEF Tab
      <3> QED BY <3>1, <3>3
    <2> QED BY <2>1, <2>2
  <1> DEFINE x == [tab[t] EXCEPT !.list = list, !.task = task]
  <1>5. tab' = [tab EXCEPT ![t] = x]
    BY <1>1, <1>4
  <1>6. /\ x \in Tab /\ x.list = list /\ x.sync = tab[t].sync /\ x.task = task
        /\ x.page = tab[t].page /\ x.saved = tab[t].saved /\ x.token = tab[t].token
    BY <1>1, <1>4 DEF Tab, Entries
  <1> HIDE DEF x
  <1>7. ListOK(x)
    BY <1>1, <1>4, <1>6 DEF ListOK, Entries
  <1> QED BY <1>1, <1>2, <1>3, <1>4, <1>5, <1>6, <1>7, OneTab

\* A set: an entry is lost to a read that came too early, or taken out because its
\* appointment is cancelled. A confirmation is forgotten with it.
LEMMA WriteStep ==
    ASSUME TabsInv, NEW t \in Tabs, Bookings!WriteCookie(t)
    PROVE  TabsInv'
  <1> USE DEF TabsInv
  <1> DEFINE task == tab[t].task
  <1>1. /\ tab \in [Tabs -> Tab] /\ tab[t] \in Tab /\ task \in Script
        /\ Entries(cookie) /\ ListOK(tab[t]) /\ asks \in Nat
    BY DEF TabTypes, Tab, EntriesOK
  <1>2. PICK e, new :
           /\ e \in task.edits /\ new \in Bookings!Written(Bookings!Edited(task.got, e))
           /\ cookie' = new
           /\ owned' = IF e \in new /\ e.status = "active" /\ appts[e.id] = "active"
                       THEN owned \cup {e.id} ELSE owned
           /\ torn' = (torn \cup ((owned \cap Bookings!IdsOf(cookie))
                                     \ Bookings!IdsOf(task.got))) \ Bookings!IdsOf(new)
           /\ tab' = IF task.then = "list"
                     THEN [tab EXCEPT ![t].task =
                              [task EXCEPT !.pc = "get", !.edits = @ \ {e}, !.got = {}]]
                     ELSE [tab EXCEPT ![t].task = Bookings!NoTask, ![t].saved = 0]
    BY DEF Bookings!WriteCookie
  <1>3. UNCHANGED <<appts, used, askOf, confirms, cancels, asks, tokens, lostAsks, failedAsks>>
    BY DEF Bookings!WriteCookie, Bookings!server
  <1>4. e \in Bookings!Edit /\ Told(e) /\ Entries(task.got)
    BY <1>1, <1>2 DEF Script, ListOK
  <1>5. new = Bookings!Edited(task.got, e) \/ new = cookie
    BY <1>2, WrittenOK
  <1>6. Entries(new)
    BY <1>1, <1>4, <1>5, EditedOK
  <1>7. AnswersOK'
    <2>1. e.id \in Ids
      BY <1>4 DEF Bookings!Edit
    <2> QED BY <1>2, <1>3, <2>1 DEF AnswersOK
  <1>8. Bookings!LiveBookingKept'
    <2> SUFFICES ASSUME NEW i \in owned', i \notin Bookings!IdsOf(new)
                 PROVE  i \in torn'
      BY <1>2 DEF Bookings!LiveBookingKept, Bookings!IdsOf
    <2>1. i \in owned
      <3>1. e \in new => e.id \in Bookings!IdsOf(new)
        BY DEF Bookings!IdsOf
      <3> QED BY <1>2, <3>1
    <2>2. CASE i \in torn
      BY <1>2, <2>2
    <2>3. CASE i \in Bookings!IdsOf(cookie)
      <3>1. new = Bookings!Edited(task.got, e)
        BY <1>5, <2>3
      <3>2. appts[i] = "active"
        BY <2>1 DEF AnswersOK
      <3>3. i = e.id => e.status # "gone"
        BY <1>4, <3>2 DEF Told
      <3>4. i \notin Bookings!IdsOf(task.got)
        BY <1>4, <3>1, <3>3, EditedOK
      <3> QED BY <1>2, <2>1, <2>3, <3>4
    <2> QED BY <2>1, <2>2, <2>3 DEF Bookings!LiveBookingKept
  <1>9. PICK next \in Script, saved \in {tab[t].saved, 0} :
           /\ tab' = [tab EXCEPT ![t].task = next, ![t].saved = saved]
           /\ next.then = "list" /\ Entries(next.got) /\ \A d \in next.edits : Told(d)
           /\ task.then = "list" => saved = tab[t].saved
           /\ task.then = "forget" => saved = 0
    <2>1. CASE task.then = "list"
      <3> DEFINE next == [task EXCEPT !.pc = "get", !.edits = @ \ {e}, !.got = {}]
      <3>1. /\ next \in Script /\ next.then = "list" /\ next.got = {}
            /\ next.edits \subseteq task.edits
        BY <1>1, <2>1 DEF Script
      <3>2. tab' = [tab EXCEPT ![t].task = next]
        BY <1>2, <2>1
      <3> HIDE DEF next
      <3>3. tab' = [tab EXCEPT ![t].task = next, ![t].saved = tab[t].saved]
        BY <1>1, <3>2 DEF Tab
      <3>4. \A d \in next.edits : Told(d)
        BY <1>1, <3>1 DEF ListOK
      <3> QED BY <2>1, <3>1, <3>3, <3>4, NothingOK
    <2>2. CASE task.then = "forget"
      <3>1. tab' = [tab EXCEPT ![t].task = Bookings!NoTask, ![t].saved = 0]
        BY <1>2, <2>2
      <3> QED BY <2>2, <3>1, NothingOK
    <2> QED BY <1>1, <2>1, <2>2 DEF Script
  <1> HIDE DEF task
  <1> DEFINE x == [tab[t] EXCEPT !.task = next, !.saved = saved]
  <1>10. tab' = [tab EXCEPT ![t] = x]
    BY <1>1, <1>9
  <1>11. /\ x \in Tab /\ x.list = tab[t].list /\ x.sync = tab[t].sync /\ x.task = next
         /\ x.page = tab[t].page /\ x.saved = saved /\ x.token = tab[t].token
    <2>1. saved \in 0..asks
      BY <1>1, <1>9 DEF Tab
    <2> QED BY <1>1, <1>9, <2>1 DEF Tab
  <1> HIDE DEF x
  <1>12. /\ tab'[t] = x /\ \A u \in Tabs \ {t} : tab'[u] = tab[u]
         /\ tab' \in [Tabs -> Tab]
    BY <1>1, <1>10, <1>11
  <1>13. TabTypes'
    BY <1>3, <1>12 DEF TabTypes, Tab, Confirm, Cancel
  <1>14. PagesOK'
    BY <1>3, <1>11, <1>12 DEF PagesOK
  <1>15. ListOK(x)
    BY <1>1, <1>9, <1>11 DEF ListOK
  <1>16. EntriesOK'
    BY <1>2, <1>3, <1>6, <1>12, <1>15, TabMoves
  <1>17. task.then = "forget" => \A r \in confirms : r.heard => r.tab # t
    BY DEF ForgetOK, task
  <1>18. task.then \in {"list", "forget"}
    BY <1>1 DEF Script
  <1>19. WaitOK'
    <2>1. \A r \in confirms : r.tab \in Tabs
      BY DEF TabTypes, Confirm
    <2>2. \A r \in confirms : r.heard => /\ tab'[r.tab].page = tab[r.tab].page
                                         /\ tab'[r.tab].saved = tab[r.tab].saved
      BY <1>9, <1>11, <1>12, <1>17, <1>18, <2>1
    <2> QED BY <1>3, <2>2 DEF WaitOK
  <1>20. SavedOK'
    BY <1>9, <1>11, <1>12 DEF SavedOK
  <1>21. ForgetOK'
    BY <1>3, <1>9, <1>11, <1>12 DEF ForgetOK
  <1>22. BookedOK'
    <2> SUFFICES ASSUME NEW ask, ask # 0, Settled(ask) PROVE Settled(ask)'
      BY <1>3 DEF BookedOK
    <2>1. CASE \E r \in confirms : r.pc \in {"booked", "done"} /\ r.ask = ask
      BY <1>3, <2>1 DEF Settled
    <2>2. CASE \E u \in Tabs \ {t} : tab[u].task.then = "forget" /\ tab[u].saved = ask
      BY <1>12, <2>2 DEF Settled
    <2>3. CASE tab[t].task.then = "forget" /\ tab[t].saved = ask
      <3>1. \A u \in Tabs \ {t} : tab[u].saved # ask
        BY <2>3 DEF SavedOK
      <3>2. tab'[t].saved = 0
        BY <1>9, <1>11, <1>12, <2>3 DEF task
      <3> QED BY <1>12, <3>1, <3>2 DEF Settled
    <2>4. CASE \A u \in Tabs : tab[u].saved # ask
      BY <1>9, <1>11, <1>12, <2>4 DEF Settled
    <2> QED BY <2>1, <2>2, <2>3, <2>4 DEF Settled
  <1>23. Bookings!BookedOncePerAsk'
    BY <1>3 DEF Bookings!BookedOncePerAsk
  <1> QED BY <1>7, <1>8, <1>13, <1>14, <1>16, <1>19, <1>20, <1>21, <1>22, <1>23

\* The buttons of the list.
LEMMA ListStep ==
    ASSUME TabsInv, NEW t \in Tabs, NEW b \in tab[t].list,
           Bookings!ClickCancel(t, b) \/ Bookings!Dismiss(t, b)
    PROVE  TabsInv'
  <1> USE DEF TabsInv
  <1>1. /\ tab \in [Tabs -> Tab] /\ tab[t] \in Tab /\ b \in Bookings!Summary /\ b.id \in Ids
        /\ Entries(cookie) /\ ListOK(tab[t]) /\ Told(b) /\ cancels \subseteq Cancel
        /\ \A r \in cancels : r.pc = "done" => appts[r.id] = "cancelled"
    BY DEF TabTypes, Tab, EntriesOK, Bookings!Summary, ListOK, AnswersOK
  <1>2. /\ UNCHANGED <<appts, used, askOf, cookie, confirms, asks, tokens, lostAsks,
                       failedAsks, owned, torn>>
        /\ tab[t].page # "wizard" => tab[t].sync = Bookings!NoSync
        /\ tab[t].task.then = "list"
    BY NothingToForget
       DEF Bookings!ClickCancel, Bookings!Dismiss, Bookings!server, PagesOK, Bookings!Free
  <1>3. CASE Bookings!ClickCancel(t, b)
    <2> DEFINE x == [tab[t] EXCEPT !.cancelling = b.id]
    <2>1. PICK r \in Bookings!Another(t, b.id) : cancels' = cancels \cup {r}
      BY <1>3 DEF Bookings!ClickCancel
    <2>2. r \in Cancel /\ r.pc = "sent"
      <3>1. PICK no \in 1..MaxRequests :
               r = [tab |-> t, id |-> b.id, no |-> no, pc |-> "sent", heard |-> TRUE]
        BY <2>1 DEF Bookings!Another
      <3> QED BY <1>1, <3>1 DEF Cancel
    <2>3. tab' = [tab EXCEPT ![t] = x]
      BY <1>1, <1>3 DEF Bookings!ClickCancel
    <2>4. /\ x \in Tab /\ x.list = tab[t].list /\ x.sync = tab[t].sync /\ x.task = tab[t].task
          /\ x.page = tab[t].page /\ x.saved = tab[t].saved /\ x.token = tab[t].token
      BY <1>1 DEF Tab
    <2> HIDE DEF x
    <2>5. ListOK(x)
      BY <1>1, <2>4 DEF ListOK
    <2>6. cancels' \subseteq Cancel /\ \A q \in cancels' : q.pc = "done" => appts[q.id] = "cancelled"
      BY <1>1, <2>1, <2>2
    <2> QED BY <1>2, <2>3, <2>4, <2>5, <2>6, OneTab
  <1>4. CASE Bookings!Dismiss(t, b)
    <2> DEFINE e == [id |-> b.id, status |-> "gone"]
               task == Bookings!Task({e}, "list")
               x == [tab[t] EXCEPT !.task = task]
    <2>1. e \in Bookings!Edit /\ Told(e)
      BY <1>1, <1>4 DEF Bookings!Dismiss, Bookings!Edit, Told
    <2>2. tab' = [tab EXCEPT ![t] = x] /\ cancels' = cancels
      BY <1>1, <1>4 DEF Bookings!Dismiss
    <2> HIDE DEF e
    <2>3. {e} \in SUBSET Bookings!Edit /\ \A d \in {e} : Told(d)
      BY <2>1
    <2>4. /\ task \in Script /\ task.then = "list" /\ Entries(task.got)
          /\ \A d \in task.edits : Told(d)
      BY <1>1, <2>3, TaskOK
    <2> HIDE DEF task
    <2>5. /\ x \in Tab /\ x.list = tab[t].list /\ x.sync = tab[t].sync /\ x.task = task
          /\ x.page = tab[t].page /\ x.saved = tab[t].saved /\ x.token = tab[t].token
      BY <1>1, <2>4 DEF Tab
    <2> HIDE DEF x
    <2>6. ListOK(x)
      BY <1>1, <2>4, <2>5 DEF ListOK
    <2> QED BY <1>1, <1>2, <2>2, <2>4, <2>5, <2>6, OneTab
  <1> QED BY <1>3, <1>4

\* The answer to a cancellation, or none.
LEMMA CancelAnsweredStep ==
    ASSUME TabsInv, NEW r \in cancels,
           Bookings!CancelAnswered(r) \/ Bookings!CancelUnanswered(r)
    PROVE  TabsInv'
  <1> USE DEF TabsInv
  <1> DEFINE t == r.tab
  <1>1. /\ r \in Cancel /\ t \in Tabs /\ r.id \in Ids
        /\ tab \in [Tabs -> Tab] /\ tab[t] \in Tab
        /\ Entries(cookie) /\ ListOK(tab[t]) /\ cancels \subseteq Cancel
        /\ \A q \in cancels : q.pc = "done" => appts[q.id] = "cancelled"
    BY DEF TabTypes, Cancel, EntriesOK, AnswersOK
  <1>2. /\ UNCHANGED <<appts, used, askOf, cookie, confirms, asks, tokens, lostAsks,
                       failedAsks, owned, torn>>
        /\ tab[t].task.pc = "free"
    BY DEF Bookings!CancelAnswered, Bookings!CancelUnanswered, Bookings!server, Bookings!Free
  <1>3. /\ tab[t].page # "wizard" => tab[t].sync = Bookings!NoSync
        /\ tab[t].task.then = "list"
    BY <1>1, <1>2, NothingToForget DEF PagesOK
  <1>4. cancels' \subseteq Cancel /\ \A q \in cancels' : q.pc = "done" => appts[q.id] = "cancelled"
    <2>1. CASE Bookings!CancelAnswered(r)
      BY <1>1, <2>1 DEF Bookings!CancelAnswered
    <2>2. CASE Bookings!CancelUnanswered(r)
      <3> DEFINE q == [r EXCEPT !.heard = FALSE]
      <3>1. q \in Cancel /\ q.pc = "sent"
        BY <1>1, <2>2 DEF Bookings!CancelUnanswered, Cancel
      <3>2. \A s \in cancels' : s \in cancels \/ s = q
        BY <2>2 DEF Bookings!CancelUnanswered
      <3> HIDE DEF q
      <3> QED BY <1>1, <3>1, <3>2
    <2> QED BY <2>1, <2>2
  <1>5. PICK task \in Script :
           /\ tab' = [tab EXCEPT ![t].cancelling = None, ![t].task = task]
           /\ task.then = "list" /\ Entries(task.got) /\ \A d \in task.edits : Told(d)
    <2>1. CASE Bookings!CancelUnanswered(r)
      <3>1. tab' = [tab EXCEPT ![t].cancelling = None, ![t].task = tab[t].task]
        BY <1>1, <2>1 DEF Bookings!CancelUnanswered, Tab
      <3> QED BY <1>1, <1>3, <3>1 DEF Tab, ListOK
    <2>2. CASE Bookings!CancelAnswered(r) /\ r.pc # "done"
      <3>1. tab' = [tab EXCEPT ![t].cancelling = None, ![t].task = Bookings!NoTask]
        BY <2>2 DEF Bookings!CancelAnswered
      <3> QED BY <3>1, NothingOK
    <2>3. CASE Bookings!CancelAnswered(r) /\ r.pc = "done"
      <3> DEFINE e == [id |-> r.id, status |-> "gone"]
      <3>1. e \in Bookings!Edit /\ Told(e)
        BY <1>1, <2>3 DEF Bookings!Edit, Told
      <3>2. tab' = [tab EXCEPT ![t].cancelling = None, ![t].task = Bookings!Task({e}, "list")]
        BY <2>3 DEF Bookings!CancelAnswered
      <3> HIDE DEF e
      <3>3. {e} \in SUBSET Bookings!Edit /\ \A d \in {e} : Told(d)
        BY <3>1
      <3> QED BY <1>1, <3>2, <3>3, TaskOK
    <2> QED BY <2>1, <2>2, <2>3
  <1> HIDE DEF t
  <1> DEFINE x == [tab[t] EXCEPT !.cancelling = None, !.task = task]
  <1>6. tab' = [tab EXCEPT ![t] = x]
    BY <1>1, <1>5
  <1>7. /\ x \in Tab /\ x.list = tab[t].list /\ x.sync = tab[t].sync /\ x.task = task
        /\ x.page = tab[t].page /\ x.saved = tab[t].saved /\ x.token = tab[t].token
    BY <1>1, <1>5 DEF Tab
  <1> HIDE DEF x
  <1>8. ListOK(x)
    BY <1>1, <1>5, <1>7 DEF ListOK
  <1> QED BY <1>1, <1>2, <1>3, <1>4, <1>5, <1>6, <1>7, <1>8, OneTab

-----------------------------------------------------------------------------
(* Pages that are left *)

LEMMA UnheardTyped ==
    ASSUME NEW t
    PROVE  /\ confirms \subseteq Confirm =>
                 \A r \in Bookings!Unheard(confirms, t) :
                    r \in Confirm /\ \E q \in confirms : r.pc = q.pc /\ r.id = q.id
           /\ cancels \subseteq Cancel =>
                 \A r \in Bookings!Unheard(cancels, t) :
                    r \in Cancel /\ \E q \in cancels : r.pc = q.pc /\ r.id = q.id
  <1>1. ASSUME NEW r \in Confirm
        PROVE  LET s == [r EXCEPT !.heard = FALSE] IN s \in Confirm /\ s.pc = r.pc /\ s.id = r.id
    BY <1>1 DEF Confirm
  <1>2. ASSUME NEW r \in Cancel
        PROVE  LET s == [r EXCEPT !.heard = FALSE] IN s \in Cancel /\ s.pc = r.pc /\ s.id = r.id
    BY <1>2 DEF Cancel
  <1>3. ASSUME NEW reqs, NEW r \in Bookings!Unheard(reqs, t)
        PROVE  r \in reqs \/ \E q \in reqs : r = [q EXCEPT !.heard = FALSE]
    BY <1>3 DEF Bookings!Unheard
  <1>4. ASSUME confirms \subseteq Confirm, NEW r \in Bookings!Unheard(confirms, t)
        PROVE  r \in Confirm /\ \E q \in confirms : r.pc = q.pc /\ r.id = q.id
    <2>1. CASE r \in confirms
      BY <1>4, <2>1
    <2>2. CASE \E q \in confirms : r = [q EXCEPT !.heard = FALSE]
      <3>1. PICK q \in confirms : r = [q EXCEPT !.heard = FALSE]
        BY <2>2
      <3> QED BY <1>1, <1>4, <3>1
    <2> QED BY <1>3, <1>4, <2>1, <2>2
  <1>5. ASSUME cancels \subseteq Cancel, NEW r \in Bookings!Unheard(cancels, t)
        PROVE  r \in Cancel /\ \E q \in cancels : r.pc = q.pc /\ r.id = q.id
    <2>1. CASE r \in cancels
      BY <1>5, <2>1
    <2>2. CASE \E q \in cancels : r = [q EXCEPT !.heard = FALSE]
      <3>1. PICK q \in cancels : r = [q EXCEPT !.heard = FALSE]
        BY <2>2
      <3> QED BY <1>2, <1>5, <3>1
    <2> QED BY <1>3, <1>5, <2>1, <2>2
  <1> QED BY <1>4, <1>5

\* What the answers say still holds: nobody books.
LEMMA LeavingAnswers ==
    ASSUME TabsInv, NEW t \in Tabs, NEW sent,
           confirms' = Bookings!Unheard(confirms, t) \cup sent,
           cancels' \in {cancels, Bookings!Unheard(cancels, t)},
           \A r \in sent : r.pc = "sent",
           UNCHANGED <<appts, owned, torn, cookie>>
    PROVE  AnswersOK' /\ Bookings!LiveBookingKept'
  <1> USE DEF TabsInv
  <1>1. \A r \in cancels' : r.pc = "done" => appts[r.id] = "cancelled"
    BY UnheardTyped DEF AnswersOK, TabTypes
  <1>2. \A r \in confirms' : r.pc \in {"booked", "done"} => r.id \in Ids /\ appts[r.id] # "free"
    BY UnheardTyped DEF AnswersOK, TabTypes
  <1> QED BY <1>1, <1>2 DEF AnswersOK, Bookings!LiveBookingKept

\* A tab leaves its page: whatever it still waited for is lost, and the page it
\* opens may send a request of its own.
LEMMA LeavingKeeps ==
    ASSUME TabsInv, NEW t \in Tabs, NEW sent,
           confirms' = Bookings!Unheard(confirms, t) \cup sent,
           lostAsks' = lostAsks \cup Bookings!LostBy(t),
           UNCHANGED <<askOf, failedAsks>>,
           \A u \in Tabs : tab'[u].saved = tab[u].saved,
           \A u \in Tabs \ {t} : tab'[u] = tab[u],
           tab[t].task.then = "list", tab'[t].task.then = "list",
           \A r \in sent : /\ r.tab = t /\ r.heard /\ r.ask = tab[t].saved /\ r.pc = "sent"
                           /\ tab'[t].page = "callback",
           \A r, q \in sent : r = q
    PROVE  WaitOK' /\ SavedOK' /\ ForgetOK' /\ BookedOK' /\ Bookings!BookedOncePerAsk'
  <1> USE DEF TabsInv
  <1>1. \A r \in confirms : r.tab \in Tabs /\ r \in Confirm
    BY DEF TabTypes, Confirm
  <1>2. \A r \in Bookings!Unheard(confirms, t) :
           \/ r \in confirms /\ r.tab # t
           \/ r.tab = t /\ ~r.heard /\ r.pc # "done" /\ r.ask \in lostAsks'
    <2> SUFFICES ASSUME NEW q \in confirms, q.tab = t, q.pc # "done",
                        NEW r, r = [q EXCEPT !.heard = FALSE]
                 PROVE  r.tab = t /\ ~r.heard /\ r.pc # "done" /\ r.ask \in lostAsks'
      BY <1>1 DEF Bookings!Unheard, Bookings!Answered
    <2>1. r.tab = t /\ ~r.heard /\ r.ask = q.ask /\ r.pc = q.pc
      BY <1>1 DEF Confirm
    <2>2. q.heard => q.ask \in Bookings!LostBy(t)
      BY DEF Bookings!LostBy
    <2> QED BY <2>1, <2>2 DEF WaitOK
  <1>3. \A r \in confirms : r.tab # t => r \in confirms'
    BY DEF Bookings!Unheard
  <1>4. \A r \in confirms' : r \in Bookings!Unheard(confirms, t) \/ r \in sent
    OBVIOUS
  <1>5. WaitOK'
    <2>1. \A r \in confirms' : ~r.heard => r.ask \in lostAsks'
      BY <1>2, <1>4 DEF WaitOK
    <2>2. \A r \in confirms' : r.pc = "done" => r.heard
      BY <1>2, <1>4 DEF WaitOK
    <2>3. \A r \in confirms' : r.heard => tab'[r.tab].page = "callback" /\ tab'[r.tab].saved = r.ask
      BY <1>1, <1>2, <1>4 DEF WaitOK
    <2>4. \A r, q \in confirms' : r.heard /\ q.heard /\ r.tab = q.tab => r = q
      BY <1>2, <1>4 DEF WaitOK
    <2> QED BY <2>1, <2>2, <2>3, <2>4 DEF WaitOK
  <1>6. ForgetOK'
    BY <1>2, <1>4 DEF ForgetOK
  <1>7. BookedOK'
    <2> SUFFICES ASSUME NEW i \in Ids, askOf[i] # 0, askOf[i] \notin lostAsks' \cup failedAsks
                 PROVE  Settled(askOf[i])'
      BY DEF BookedOK
    <2>1. Settled(askOf[i])
      BY DEF BookedOK
    <2>2. ASSUME NEW r \in confirms, r.pc \in {"booked", "done"}, r.ask = askOf[i]
          PROVE  r \in confirms'
      <3>1. r.heard /\ r.ask \notin Bookings!LostBy(t)
        BY <2>2 DEF WaitOK
      <3>2. r.tab # t
        BY <3>1 DEF Bookings!LostBy
      <3> QED BY <1>3, <3>2
    <2>3. \A u \in Tabs : tab[u].task.then = "forget" => tab'[u] = tab[u]
      OBVIOUS
    <2> QED BY <2>1, <2>2, <2>3 DEF Settled
  <1>8. SavedOK' /\ Bookings!BookedOncePerAsk'
    BY DEF SavedOK, Bookings!BookedOncePerAsk
  <1> QED BY <1>5, <1>6, <1>7, <1>8

LEMMA TabOpens ==
    ASSUME TabsInv, NEW t \in Tabs, Bookings!OpenWizard(t)
    PROVE  TabsInv'
  <1> USE DEF TabsInv
  <1> DEFINE w == Bookings!OnWizard(t, cookie)
  <1>1. Entries(cookie)
    BY DEF EntriesOK
  <1>2. /\ w \in Tab /\ w.page = "wizard" /\ w.saved = tab[t].saved
        /\ w.task.then = "list" /\ ListOK(w)
    BY <1>1, OnWizardOK
  <1> HIDE DEF w
  <1>3. /\ tab' = [tab EXCEPT ![t] = w] /\ tab \in [Tabs -> Tab]
        /\ confirms' = Bookings!Unheard(confirms, t)
        /\ cancels' = Bookings!Unheard(cancels, t)
        /\ lostAsks' = lostAsks \cup Bookings!LostBy(t)
        /\ UNCHANGED <<appts, used, askOf, cookie, asks, tokens, failedAsks, owned, torn>>
    BY DEF Bookings!OpenWizard, w, TabTypes, Bookings!server
  <1>4. tab'[t] = w /\ \A u \in Tabs \ {t} : tab'[u] = tab[u]
    BY <1>3
  <1>5. TabTypes'
    BY <1>2, <1>3, UnheardTyped DEF TabTypes, Tab, Confirm
  <1>6. PagesOK'
    BY <1>3, <1>2, <1>4 DEF PagesOK
  <1>7. EntriesOK'
    BY <1>1, <1>2, <1>3, <1>4, TabMoves
  <1> DEFINE sent == {}
  <1>8. confirms' = Bookings!Unheard(confirms, t) \cup sent /\ \A r \in sent : FALSE
    BY <1>3
  <1> HIDE DEF sent
  <1>9. AnswersOK' /\ Bookings!LiveBookingKept'
    BY <1>3, <1>8, LeavingAnswers
  <1>10. tab[t].task.then = "list"
    BY NothingToForget DEF Bookings!OpenWizard, Bookings!Free
  <1>11. WaitOK' /\ SavedOK' /\ ForgetOK' /\ BookedOK' /\ Bookings!BookedOncePerAsk'
    BY <1>2, <1>3, <1>4, <1>8, <1>10, LeavingKeeps
  <1> QED BY <1>5, <1>6, <1>7, <1>9, <1>11

LEMMA TabComesBack ==
    ASSUME TabsInv, NEW t \in Tabs, Bookings!BackToGoogle(t)
    PROVE  TabsInv'
  <1> USE DEF TabsInv
  <1>1. /\ tab \in [Tabs -> Tab] /\ tab[t] \in Tab /\ Entries(cookie) /\ ListOK(tab[t])
    BY DEF TabTypes, EntriesOK
  <1>2. /\ cancels' = Bookings!Unheard(cancels, t)
        /\ confirms' = Bookings!Unheard(confirms, t)
        /\ lostAsks' = lostAsks \cup Bookings!LostBy(t)
        /\ UNCHANGED <<appts, used, askOf, cookie, asks, tokens, failedAsks, owned, torn>>
    BY DEF Bookings!BackToGoogle, Bookings!server
  <1>3. tab' = [tab EXCEPT ![t] = [@ EXCEPT !.page = "google", !.list = {}, !.sync = Bookings!NoSync,
                                            !.cancelling = None]]
    BY DEF Bookings!BackToGoogle
  <1>4. /\ tab'[t].page = "google" /\ tab'[t].saved = tab[t].saved /\ tab'[t].list = {}
        /\ tab'[t].sync = Bookings!NoSync /\ tab'[t].token = tab[t].token
        /\ tab'[t].task = tab[t].task
        /\ \A u \in Tabs \ {t} : tab'[u] = tab[u]
    BY <1>1, <1>3 DEF Tab
  <1>5. tab' \in [Tabs -> Tab]
    BY <1>1, <1>3, NothingOK DEF Tab
  <1>6. TabTypes'
    BY <1>2, <1>5, UnheardTyped DEF TabTypes, Tab, Confirm
  <1>7. PagesOK'
    BY <1>2, <1>4 DEF PagesOK
  <1>8. ListOK(tab'[t])
    BY <1>1, <1>4, NothingOK DEF ListOK
  <1>9. EntriesOK'
    BY <1>1, <1>2, <1>4, <1>8, TabMoves
  <1> DEFINE sent == {}
  <1>10. confirms' = Bookings!Unheard(confirms, t) \cup sent /\ \A r \in sent : FALSE
    BY <1>2
  <1> HIDE DEF sent
  <1>11. AnswersOK' /\ Bookings!LiveBookingKept'
    BY <1>2, <1>10, LeavingAnswers
  <1>12. tab[t].task.then = "list"
    BY NothingToForget DEF Bookings!BackToGoogle, Bookings!Free
  <1>13. WaitOK' /\ SavedOK' /\ ForgetOK' /\ BookedOK' /\ Bookings!BookedOncePerAsk'
    BY <1>2, <1>4, <1>10, <1>12, LeavingKeeps
  <1> QED BY <1>6, <1>7, <1>9, <1>11, <1>13

\* Off to Google: the booking is the tab's own, and nothing of the wizard stays.
LEMMA ToGoogleStep ==
    ASSUME TabsInv, NEW t \in Tabs, Bookings!TakeToGoogle(t)
    PROVE  TabsInv'
  <1> USE DEF TabsInv
  <1>1. /\ tab \in [Tabs -> Tab] /\ tab[t] \in Tab /\ asks \in Nat /\ tokens \in Nat
        /\ Entries(cookie) /\ ListOK(tab[t]) /\ tab[t].page = "wizard"
        /\ tab[t].task.then = "list"
    BY NothingToForget DEF TabTypes, EntriesOK, Bookings!TakeToGoogle, Bookings!Free
  <1>2. /\ asks' = asks + 1 /\ cancels' = Bookings!Unheard(cancels, t)
        /\ UNCHANGED <<appts, used, askOf, cookie, confirms, tokens, lostAsks, failedAsks,
                       owned, torn>>
    BY DEF Bookings!TakeToGoogle, Bookings!server
  <1>3. tab' = [tab EXCEPT ![t] = [@ EXCEPT !.page = "google", !.saved = asks + 1, !.list = {},
                                            !.sync = Bookings!NoSync, !.cancelling = None]]
    BY DEF Bookings!TakeToGoogle
  <1>4. /\ tab'[t].page = "google" /\ tab'[t].saved = asks + 1 /\ tab'[t].list = {}
        /\ tab'[t].sync = Bookings!NoSync /\ tab'[t].token = tab[t].token
        /\ tab'[t].task = tab[t].task
        /\ \A u \in Tabs \ {t} : tab'[u] = tab[u]
    BY <1>1, <1>3 DEF Tab
  <1>5. 0..asks \subseteq 0..asks' /\ 1..asks \subseteq 1..asks' /\ asks + 1 \in 0..asks'
    BY <1>1, <1>2
  <1>6. \A u \in Tabs : tab[u] \in Tab' /\ tab[u].saved <= asks
    BY <1>1, <1>2, <1>5 DEF Tab
  <1>7. tab' \in [Tabs -> Tab']
    BY <1>1, <1>2, <1>3, <1>5, <1>6, NothingOK DEF Tab
  <1>8. TabTypes'
    <2>1. confirms' \subseteq Confirm'
      BY <1>2, <1>5 DEF TabTypes, Confirm
    <2>2. askOf' \in [Ids -> 0..asks']
      BY <1>2, <1>5 DEF TabTypes
    <2> QED BY <1>1, <1>2, <1>7, <2>1, <2>2, UnheardTyped DEF TabTypes
  <1>9. PagesOK'
    BY <1>2, <1>4 DEF PagesOK
  <1>10. ListOK(tab'[t])
    BY <1>1, <1>4, NothingOK DEF ListOK
  <1>11. EntriesOK'
    BY <1>1, <1>2, <1>4, <1>10, TabMoves
  <1>12. AnswersOK' /\ Bookings!LiveBookingKept'
    BY <1>2, UnheardTyped DEF AnswersOK, Bookings!LiveBookingKept, TabTypes
  <1>13. \A r \in confirms : r.tab \in Tabs /\ (r.heard => r.tab # t)
    BY <1>1 DEF WaitOK, TabTypes, Confirm
  <1>14. WaitOK' /\ ForgetOK'
    BY <1>2, <1>4, <1>13 DEF WaitOK, ForgetOK
  <1>15. SavedOK'
    BY <1>1, <1>4, <1>6 DEF SavedOK
  <1>16. \A i \in Ids : askOf[i] # asks + 1
    BY <1>1 DEF TabTypes
  <1>17. BookedOK'
    <2> SUFFICES ASSUME NEW i \in Ids, Settled(askOf[i]) PROVE Settled(askOf[i])'
      BY <1>2 DEF BookedOK
    <2>1. \A u \in Tabs : tab[u].task.then = "forget" => u # t
      BY <1>1
    <2> QED BY <1>2, <1>4, <1>16, <2>1 DEF Settled
  <1>18. Bookings!BookedOncePerAsk'
    BY <1>2 DEF Bookings!BookedOncePerAsk
  <1> QED BY <1>8, <1>9, <1>11, <1>12, <1>14, <1>15, <1>17, <1>18

\* The page that confirms sends one request for what the tab took to Google.
LEMMA ConfirmingStep ==
    ASSUME TabsInv, NEW t \in Tabs,
           Bookings!GoogleReturns(t) \/ Bookings!ReloadCallback(t)
    PROVE  TabsInv'
  <1> USE DEF TabsInv
  <1>1. /\ tab \in [Tabs -> Tab] /\ tab[t] \in Tab /\ asks \in Nat /\ tokens \in Nat
        /\ Entries(cookie) /\ ListOK(tab[t])
    BY DEF TabTypes, EntriesOK
  <1>2. /\ tokens' \in {tokens, tokens + 1}
        /\ UNCHANGED <<appts, used, askOf, cookie, cancels, asks, failedAsks, owned, torn>>
        /\ tab[t].page # "wizard"
        /\ tab[t].task.then = "list"
    BY NothingToForget
       DEF Bookings!GoogleReturns, Bookings!ReloadCallback, Bookings!server, Bookings!Free
  <1>3. PICK token : Bookings!Confirming(t, token) /\ token \in 1..tokens'
    <2>1. CASE Bookings!GoogleReturns(t)
      <3>1. Bookings!Confirming(t, tokens + 1) /\ tokens' = tokens + 1
        BY <2>1 DEF Bookings!GoogleReturns
      <3>2. tokens + 1 \in 1..tokens'
        BY <1>1, <3>1
      <3> QED BY <3>1, <3>2
    <2>2. CASE Bookings!ReloadCallback(t)
      <3>1. /\ Bookings!Confirming(t, tab[t].token) /\ tokens' = tokens
            /\ tab[t].page = "callback"
        BY <2>2 DEF Bookings!ReloadCallback
      <3>2. tab[t].token \in 1..tokens'
        BY <1>1, <3>1 DEF PagesOK, Tab
      <3> QED BY <3>1, <3>2
    <2> QED BY <2>1, <2>2
  <1> DEFINE sent == IF tab[t].saved = 0 THEN {} ELSE {Bookings!Request(t, token)}
  <1>4. /\ confirms' = Bookings!Unheard(confirms, t) \cup sent
        /\ lostAsks' = lostAsks \cup Bookings!LostBy(t)
        /\ tab' = [tab EXCEPT ![t].page = "callback", ![t].token = token]
    BY <1>3 DEF Bookings!Confirming
  <1>5. 1..tokens \subseteq 1..tokens' /\ tokens' \in Nat
    BY <1>1, <1>2
  <1>6. /\ tab'[t].page = "callback" /\ tab'[t].saved = tab[t].saved
        /\ tab'[t].list = tab[t].list /\ tab'[t].sync = tab[t].sync /\ tab'[t].token = token
        /\ tab'[t].task = tab[t].task
        /\ \A u \in Tabs \ {t} : tab'[u] = tab[u]
    BY <1>1, <1>4 DEF Tab
  <1>7. \A u \in Tabs : tab[u] \in Tab'
    BY <1>1, <1>2, <1>5 DEF Tab
  <1>8. tab' \in [Tabs -> Tab']
    BY <1>1, <1>2, <1>3, <1>4, <1>7 DEF Tab
  <1>9. tab[t].saved # 0 => Bookings!Request(t, token) \in Confirm'
    BY <1>1, <1>2, <1>3 DEF Bookings!Request, Confirm, Tab
  <1>10. /\ \A r \in sent : r = Bookings!Request(t, token) /\ r \in Confirm'
         /\ \A r \in sent : r.tab = t /\ r.heard /\ r.ask = tab[t].saved /\ r.pc = "sent"
         /\ \A r, q \in sent : r = q
    <2>1. \A r \in sent : r = Bookings!Request(t, token) /\ tab[t].saved # 0
      OBVIOUS
    <2> HIDE DEF sent
    <2>2. /\ Bookings!Request(t, token).tab = t /\ Bookings!Request(t, token).heard
          /\ Bookings!Request(t, token).ask = tab[t].saved
          /\ Bookings!Request(t, token).pc = "sent"
      BY DEF Bookings!Request
    <2> QED BY <1>9, <2>1, <2>2
  <1> HIDE DEF sent
  <1>11. TabTypes'
    <2>1. Bookings!Unheard(confirms, t) \subseteq Confirm /\ Confirm \subseteq Confirm'
      BY <1>2, <1>5, UnheardTyped DEF TabTypes, Confirm
    <2>2. used' \subseteq 1..tokens'
      BY <1>2, <1>5 DEF TabTypes
    <2> QED BY <1>1, <1>2, <1>4, <1>5, <1>8, <1>10, <2>1, <2>2 DEF TabTypes, Cancel
  <1>12. PagesOK'
    BY <1>2, <1>3, <1>5, <1>6 DEF PagesOK
  <1>13. ListOK(tab'[t])
    BY <1>1, <1>6 DEF ListOK
  <1>14. EntriesOK'
    BY <1>1, <1>2, <1>6, <1>13, TabMoves
  <1>15. AnswersOK' /\ Bookings!LiveBookingKept'
    BY <1>2, <1>4, <1>10, LeavingAnswers
  <1>16. /\ \A u \in Tabs : tab'[u].saved = tab[u].saved
         /\ confirms' = Bookings!Unheard(confirms, t) \cup sent
         /\ lostAsks' = lostAsks \cup Bookings!LostBy(t)
         /\ UNCHANGED <<askOf, failedAsks>> /\ tab[t].task.then = "list"
         /\ \A u \in Tabs \ {t} : tab'[u] = tab[u]
         /\ \A r, q \in sent : r = q
         /\ tab'[t].task.then = "list"
         /\ \A r \in sent : /\ r.tab = t /\ r.heard /\ r.ask = tab[t].saved /\ r.pc = "sent"
                            /\ tab'[t].page = "callback"
    BY <1>2, <1>4, <1>6, <1>10
  <1>17. WaitOK' /\ SavedOK' /\ ForgetOK' /\ BookedOK' /\ Bookings!BookedOncePerAsk'
    BY <1>16, LeavingKeeps
  <1> QED BY <1>11, <1>12, <1>14, <1>15, <1>17

-----------------------------------------------------------------------------
(* The server *)

\* A cancellation, by the customer or the staff.
LEMMA CancelsStep ==
    ASSUME TabsInv, \/ \E r \in cancels : Bookings!CancelAtServer(r)
                    \/ \E i \in Ids : Bookings!StaffCancels(i)
    PROVE  TabsInv'
  <1> USE DEF TabsInv
  <1>1. ASSUME NEW i \in Ids, owned' = owned \ {i}, torn' = torn \ {i},
               appts' = [appts EXCEPT ![i] = "cancelled"],
               UNCHANGED <<used, askOf, cookie, tab, confirms, asks, tokens, lostAsks, failedAsks>>,
               cancels' \subseteq Cancel,
               \A r \in cancels' : r.pc = "done" => r \in cancels \/ r.id = i
        PROVE  TabsInv'
    <2>1. /\ appts' \in [Ids -> Bookings!Statuses \cup {"free"}]
          /\ appts'[i] = "cancelled"
          /\ \A j \in Ids \ {i} : appts'[j] = appts[j]
      BY <1>1 DEF TabTypes, Bookings!Statuses
    <2>2. TabTypes' /\ PagesOK'
      BY <1>1, <2>1 DEF TabTypes, Tab, Confirm, PagesOK
    <2>3. \A j \in Ids : /\ appts[j] # "free" => appts'[j] # "free"
                         /\ appts[j] = "cancelled" => appts'[j] = "cancelled"
      BY <1>1, <2>1 DEF TabTypes
    <2>4. EntriesOK'
      BY <1>1, <2>3, ServerMoves
    <2>5. WaitOK' /\ SavedOK' /\ ForgetOK' /\ BookedOK' /\ Bookings!BookedOncePerAsk'
      BY <1>1 DEF WaitOK, SavedOK, ForgetOK, BookedOK, Settled, Bookings!BookedOncePerAsk
    <2>6. \A r \in cancels : r.id \in Ids
      BY DEF TabTypes, Cancel
    <2>7. AnswersOK'
      BY <1>1, <2>1, <2>3, <2>6 DEF AnswersOK
    <2>8. Bookings!LiveBookingKept'
      BY <1>1 DEF Bookings!LiveBookingKept
    <2> QED BY <2>2, <2>4, <2>5, <2>7, <2>8
  <1>2. ASSUME NEW r \in cancels, Bookings!CancelAtServer(r) PROVE TabsInv'
    <2>1. r \in Cancel /\ r.id \in Ids
      BY DEF TabTypes, Cancel
    <2>2. /\ owned' = owned \ {r.id} /\ torn' = torn \ {r.id}
          /\ appts' = [appts EXCEPT ![r.id] = "cancelled"]
          /\ UNCHANGED <<used, askOf, cookie, tab, confirms, asks, tokens, lostAsks, failedAsks>>
      BY <1>2 DEF Bookings!CancelAtServer
    <2>3. \A q \in cancels' : q \in cancels \/ (q \in Cancel /\ q.id = r.id)
      <3> DEFINE q == [r EXCEPT !.pc = IF appts[r.id] = "cancelled" THEN "refused" ELSE "done"]
      <3>1. q \in Cancel /\ q.id = r.id
        BY <2>1 DEF Cancel
      <3>2. cancels' \subseteq cancels \cup {q}
        BY <1>2 DEF Bookings!CancelAtServer
      <3> HIDE DEF q
      <3> QED BY <3>1, <3>2
    <2> QED BY <1>1, <2>1, <2>2, <2>3 DEF TabTypes
  <1>3. ASSUME NEW i \in Ids, Bookings!StaffCancels(i) PROVE TabsInv'
    BY <1>1, <1>3 DEF Bookings!StaffCancels, TabTypes
  <1> QED BY <1>2, <1>3

\* A confirmation moves on, or is at its end: the tabs do not change.
LEMMA RequestMoves ==
    ASSUME TabsInv, NEW r \in confirms, NEW left,
           confirms' = (confirms \ {r}) \cup left,
           \A q \in left : /\ q \in Confirm /\ q.tab = r.tab /\ q.ask = r.ask
                           /\ q.heard => r.heard
                           /\ ~q.heard => q.ask \in lostAsks'
                           /\ q.pc = "done" => q.heard,
           \A q, s \in left : q = s,
           lostAsks \subseteq lostAsks', UNCHANGED tab
    PROVE  WaitOK' /\ SavedOK' /\ ForgetOK'
  <1> USE DEF TabsInv
  <1>1. \A q \in confirms' : q \in confirms \ {r} \/ q \in left
    OBVIOUS
  <1>2. \A q \in left, s \in confirms \ {r} : q.heard /\ s.heard => s.tab # q.tab
    BY DEF WaitOK
  <1>3. WaitOK'
    <2>1. \A q \in confirms' : ~q.heard => q.ask \in lostAsks'
      BY <1>1 DEF WaitOK
    <2>2. \A q \in confirms' : q.pc = "done" => q.heard
      BY <1>1 DEF WaitOK
    <2>3. \A q \in confirms' : q.heard => tab[q.tab].page = "callback" /\ tab[q.tab].saved = q.ask
      BY <1>1 DEF WaitOK
    <2>4. \A q, s \in confirms' : q.heard /\ s.heard /\ q.tab = s.tab => q = s
      BY <1>1, <1>2 DEF WaitOK
    <2> QED BY <2>1, <2>2, <2>3, <2>4 DEF WaitOK
  <1>4. ForgetOK'
    BY <1>1 DEF ForgetOK
  <1> QED BY <1>3, <1>4 DEF SavedOK

\* Its check, the answer of the server to it, or none. A request that ends after it
\* booked is not waited for or is answered with an error.
LEMMA RequestStep ==
    ASSUME TabsInv, NEW r \in confirms,
           \/ Bookings!AcceptConfirm(r)
           \/ Bookings!RefuseConfirm(r)
           \/ Bookings!Consume(r)
           \/ Bookings!FailAfterCommit(r)
           \/ Bookings!ConfirmUnanswered(r)
    PROVE  TabsInv'
  <1> USE DEF TabsInv
  <1>1. /\ r \in Confirm /\ (~r.heard => r.ask \in lostAsks)
        /\ r.pc \in {"booked", "done"} => r.id \in Ids /\ appts[r.id] # "free"
        /\ r.token \in 1..tokens
    BY DEF TabTypes, WaitOK, AnswersOK, Confirm
  <1>2. /\ UNCHANGED <<appts, askOf, cookie, tab, cancels, asks, tokens, owned, torn>>
        /\ used' \subseteq used \cup {r.token}
        /\ lostAsks \subseteq lostAsks' /\ failedAsks \subseteq failedAsks'
    BY DEF Bookings!AcceptConfirm, Bookings!RefuseConfirm, Bookings!Consume,
           Bookings!FailAfterCommit, Bookings!ConfirmUnanswered, Bookings!server
  <1> DEFINE Fits(left) ==
           /\ confirms' = (confirms \ {r}) \cup left
           /\ \A q, s \in left : q = s
           /\ \A q \in left : /\ q \in Confirm /\ q.tab = r.tab /\ q.ask = r.ask /\ q.id = r.id
                              /\ q.heard => r.heard
                              /\ ~q.heard => q.ask \in lostAsks'
                              /\ q.pc = "done" => q.heard
                              /\ q.pc \in {"booked", "done"} <=> r.pc \in {"booked", "done"}
           /\ r.pc \in {"booked", "done"} =>
                 r.ask \in lostAsks' \cup failedAsks' \/ \E q \in left : TRUE
  <1>3. \E left : Fits(left)
    <2>1. CASE Bookings!AcceptConfirm(r)
      <3> DEFINE q == [r EXCEPT !.pc = "valid"]
      <3>1. /\ q \in Confirm /\ q.tab = r.tab /\ q.ask = r.ask /\ q.heard = r.heard
            /\ q.pc = "valid" /\ q.id = r.id
        BY <1>1 DEF Confirm
      <3>2. confirms' = (confirms \ {r}) \cup {q} /\ r.pc = "sent"
        BY <2>1 DEF Bookings!AcceptConfirm
      <3> HIDE DEF q
      <3>3. Fits({q})
        BY <1>1, <1>2, <3>1, <3>2
      <3> HIDE DEF Fits
      <3> QED BY <3>3
    <2>2. CASE Bookings!RefuseConfirm(r)
      <3>1. confirms' = (confirms \ {r}) \cup {} /\ r.pc \in {"sent", "valid"}
        BY <2>2 DEF Bookings!RefuseConfirm
      <3>2. Fits({})
        BY <3>1
      <3> HIDE DEF Fits
      <3> QED BY <3>2
    <2>3. CASE Bookings!Consume(r) /\ r.heard
      <3> DEFINE q == [r EXCEPT !.pc = "done"]
      <3>1. /\ q \in Confirm /\ q.tab = r.tab /\ q.ask = r.ask /\ q.heard
            /\ q.pc = "done" /\ q.id = r.id
        BY <1>1, <2>3 DEF Confirm
      <3>2. confirms' = (confirms \ {r}) \cup {q} /\ r.pc = "booked"
        BY <2>3 DEF Bookings!Consume
      <3> HIDE DEF q
      <3>3. Fits({q})
        BY <2>3, <3>1, <3>2
      <3> HIDE DEF Fits
      <3> QED BY <3>3
    <2>4. CASE \/ Bookings!Consume(r) /\ ~r.heard
               \/ Bookings!FailAfterCommit(r)
      <3>1. confirms' = (confirms \ {r}) \cup {}
        BY <2>4 DEF Bookings!Consume, Bookings!FailAfterCommit
      <3>2. r.ask \in lostAsks' \cup failedAsks'
        BY <1>1, <1>2, <2>4 DEF Bookings!FailAfterCommit
      <3>3. Fits({})
        BY <3>1, <3>2
      <3> HIDE DEF Fits
      <3> QED BY <3>3
    <2>5. CASE Bookings!ConfirmUnanswered(r)
      <3> DEFINE q == [r EXCEPT !.heard = FALSE]
      <3>1. /\ q \in Confirm /\ q.tab = r.tab /\ q.ask = r.ask /\ ~q.heard
            /\ q.pc = r.pc /\ q.id = r.id
        BY <1>1 DEF Confirm
      <3>2. confirms' = (confirms \ {r}) \cup {q} /\ r.ask \in lostAsks' /\ r.pc # "done"
        BY <2>5 DEF Bookings!ConfirmUnanswered
      <3> HIDE DEF q
      <3>3. Fits({q})
        BY <3>1, <3>2
      <3> HIDE DEF Fits
      <3> QED BY <3>3
    <2> QED BY <2>1, <2>2, <2>3, <2>4, <2>5
  <1>4. PICK left : Fits(left)
    BY <1>3
  <1>5. TabTypes' /\ PagesOK'
    BY <1>1, <1>2, <1>4 DEF TabTypes, Tab, Confirm, PagesOK
  <1>6. EntriesOK'
    BY <1>2, ServerMoves
  <1>7. AnswersOK' /\ Bookings!LiveBookingKept'
    BY <1>1, <1>2, <1>4 DEF AnswersOK, Bookings!LiveBookingKept
  <1>8. WaitOK' /\ SavedOK' /\ ForgetOK'
    BY <1>2, <1>4, RequestMoves
  <1>9. BookedOK'
    <2> SUFFICES ASSUME NEW i \in Ids, askOf[i] # 0, askOf[i] \notin lostAsks' \cup failedAsks'
                 PROVE  Settled(askOf[i])'
      BY <1>2 DEF BookedOK
    <2>1. Settled(askOf[i])
      BY <1>2 DEF BookedOK
    <2>2. ASSUME NEW s \in confirms, s.pc \in {"booked", "done"}, s.ask = askOf[i]
          PROVE  \E q \in confirms' : q.pc \in {"booked", "done"} /\ q.ask = askOf[i]
      <3>1. CASE s # r
        BY <1>4, <2>2, <3>1
      <3>2. CASE s = r
        <4>1. PICK q \in left : TRUE
          BY <1>4, <2>2, <3>2
        <4> QED BY <1>4, <2>2, <3>2, <4>1
      <3> QED BY <3>1, <3>2
    <2> QED BY <1>2, <2>1, <2>2 DEF Settled
  <1>10. Bookings!BookedOncePerAsk'
    BY <1>2 DEF Bookings!BookedOncePerAsk
  <1> QED BY <1>5, <1>6, <1>7, <1>8, <1>9, <1>10

\* The appointment is made. If another of the same ask was made before, the
\* answer to one of the two requests was not waited for, or was an error.
LEMMA BookStep ==
    ASSUME TabsInv, NEW r \in confirms, NEW i \in Ids, Bookings!Book(r, i)
    PROVE  TabsInv'
  <1> USE DEF TabsInv
  <1> DEFINE q == [r EXCEPT !.pc = "booked", !.id = i]
  <1>1. r \in Confirm /\ r.pc = "valid" /\ appts[i] = "free" /\ (~r.heard => r.ask \in lostAsks)
    BY DEF TabTypes, WaitOK, Bookings!Book
  <1>2. /\ q \in Confirm /\ q.tab = r.tab /\ q.ask = r.ask /\ q.heard = r.heard
        /\ q.pc = "booked" /\ q.id = i
    BY <1>1 DEF Confirm
  <1>3. confirms' = (confirms \ {r}) \cup {q}
    BY DEF Bookings!Book
  <1> HIDE DEF q
  <1>4. /\ appts' = [appts EXCEPT ![i] = "active"] /\ askOf' = [askOf EXCEPT ![i] = r.ask]
        /\ UNCHANGED <<used, cookie, tab, cancels, asks, tokens, lostAsks, failedAsks, owned, torn>>
    BY DEF Bookings!Book
  <1>5. /\ appts'[i] = "active" /\ askOf'[i] = r.ask
        /\ \A j \in Ids \ {i} : appts'[j] = appts[j] /\ askOf'[j] = askOf[j]
    BY <1>4 DEF TabTypes
  <1>6. TabTypes'
    <2>1. r.ask \in 0..asks
      BY <1>1 DEF Confirm, TabTypes
    <2>2. appts' \in [Ids -> Bookings!Statuses \cup {"free"}] /\ askOf' \in [Ids -> 0..asks]
      BY <1>4, <2>1 DEF TabTypes, Bookings!Statuses
    <2> QED BY <1>2, <1>3, <1>4, <2>2 DEF TabTypes, Tab, Confirm
  <1>7. PagesOK'
    BY <1>4 DEF PagesOK
  <1>8. EntriesOK'
    BY <1>1, <1>4, <1>5, ServerMoves
  <1>9. AnswersOK' /\ Bookings!LiveBookingKept'
    <2>1. \A s \in cancels : s.id \in Ids
      BY DEF TabTypes, Cancel
    <2> QED
      BY <1>1, <1>2, <1>3, <1>4, <1>5, <2>1 DEF AnswersOK, Bookings!LiveBookingKept
  <1>10. WaitOK' /\ SavedOK' /\ ForgetOK'
    <2> DEFINE left == {q}
    <2>1. \A s \in left : s = q
      OBVIOUS
    <2>2. confirms' = (confirms \ {r}) \cup left /\ lostAsks \subseteq lostAsks' /\ tab' = tab
      BY <1>3, <1>4
    <2> HIDE DEF left
    <2>3. \A s \in left : /\ s \in Confirm /\ s.tab = r.tab /\ s.ask = r.ask
                          /\ s.heard => r.heard
                          /\ ~s.heard => s.ask \in lostAsks'
                          /\ s.pc = "done" => s.heard
      BY <1>1, <1>2, <1>4, <2>1
    <2> QED BY <2>1, <2>2, <2>3, RequestMoves
  <1>11. \A j \in Ids : askOf[j] # r.ask \/ r.ask \in lostAsks \cup failedAsks
    <2> SUFFICES ASSUME NEW j \in Ids, askOf[j] = r.ask, r.ask \notin lostAsks \cup failedAsks
                 PROVE  FALSE
      OBVIOUS
    <2>1. r.ask # 0 /\ r.tab \in Tabs
      BY <1>1 DEF Confirm, TabTypes
    <2>2. r.heard /\ tab[r.tab].saved = r.ask
      BY <1>1 DEF WaitOK
    <2>3. Settled(r.ask)
      BY <2>1 DEF BookedOK
    <2>4. CASE \E s \in confirms : s.pc \in {"booked", "done"} /\ s.ask = r.ask
      <3>1. PICK s \in confirms : s.pc \in {"booked", "done"} /\ s.ask = r.ask
        BY <2>4
      <3>2. s.heard /\ tab[s.tab].saved = r.ask /\ s.tab \in Tabs
        BY <3>1 DEF WaitOK, TabTypes, Confirm
      <3>3. s.tab = r.tab
        BY <2>1, <2>2, <3>2 DEF SavedOK
      <3> QED BY <1>1, <2>2, <3>1, <3>2, <3>3 DEF WaitOK
    <2>5. CASE \E t \in Tabs : tab[t].task.then = "forget" /\ tab[t].saved = r.ask
      <3>1. PICK t \in Tabs : tab[t].task.then = "forget" /\ tab[t].saved = r.ask
        BY <2>5
      <3>2. t = r.tab
        BY <2>1, <2>2, <3>1 DEF SavedOK
      <3> QED BY <2>2, <3>1, <3>2 DEF ForgetOK
    <2> QED BY <2>1, <2>2, <2>3, <2>4, <2>5 DEF Settled
  <1>12. BookedOK'
    <2> SUFFICES ASSUME NEW j \in Ids, NEW ask, ask = askOf'[j], ask # 0,
                        ask \notin lostAsks' \cup failedAsks'
                 PROVE  Settled(ask)'
      BY DEF BookedOK, Settled
    <2>1. CASE j = i
      <3>1. q \in confirms' /\ q.pc = "booked" /\ q.ask = ask
        BY <1>2, <1>3, <1>5, <2>1
      <3> QED BY <3>1 DEF Settled
    <2>2. CASE j # i
      <3>1. Settled(ask)
        BY <1>4, <1>5, <2>2 DEF BookedOK
      <3>2. \A s \in confirms : s.pc \in {"booked", "done"} => s \in confirms'
        BY <1>1, <1>3
      <3> QED BY <1>4, <3>1, <3>2 DEF Settled
    <2> QED BY <2>1, <2>2
  <1>13. Bookings!BookedOncePerAsk'
    BY <1>4, <1>5, <1>11 DEF Bookings!BookedOncePerAsk
  <1> QED BY <1>6, <1>7, <1>8, <1>9, <1>10, <1>12, <1>13

\* The answer: the script that enters it into the cookie forgets what the tab took to
\* Google.
LEMMA ConfirmedStep ==
    ASSUME TabsInv, NEW r \in confirms, Bookings!Confirmed(r)
    PROVE  TabsInv'
  <1> USE DEF TabsInv
  <1> DEFINE e == [id |-> r.id, status |-> "active"]
             t == r.tab
             task == Bookings!Task({e}, "forget")
             x == [tab[t] EXCEPT !.task = task]
  <1>1. /\ r \in Confirm /\ t \in Tabs /\ r.pc = "done" /\ r.heard
        /\ r.id \in Ids /\ appts[r.id] # "free" /\ tab[t].saved = r.ask
        /\ tab \in [Tabs -> Tab] /\ tab[t] \in Tab /\ Entries(cookie) /\ ListOK(tab[t])
    BY DEF Bookings!Confirmed, TabTypes, Confirm, AnswersOK, EntriesOK, WaitOK
  <1>2. e \in Bookings!Edit /\ Told(e)
    BY <1>1 DEF Bookings!Edit, Bookings!Statuses, Told
  <1>3. /\ tab' = [tab EXCEPT ![t] = x]
        /\ confirms' = confirms \ {r}
        /\ UNCHANGED <<appts, used, askOf, cookie, cancels, asks, tokens, lostAsks,
                       failedAsks, owned, torn>>
    BY <1>1 DEF Bookings!Confirmed, Bookings!server
  <1> HIDE DEF e, t
  <1>4. {e} \in SUBSET Bookings!Edit /\ \A d \in {e} : Told(d)
    BY <1>2
  <1>5. /\ task \in Script /\ task.pc = "set" /\ task.then = "forget" /\ Entries(task.got)
        /\ \A d \in task.edits : Told(d)
    BY <1>1, <1>4, TaskOK
  <1> HIDE DEF task
  <1>6. /\ x \in Tab /\ x.list = tab[t].list /\ x.sync = tab[t].sync /\ x.task = task
        /\ x.page = tab[t].page /\ x.saved = tab[t].saved /\ x.token = tab[t].token
    BY <1>1, <1>5 DEF Tab
  <1> HIDE DEF x
  <1>7. /\ tab'[t] = x /\ \A u \in Tabs \ {t} : tab'[u] = tab[u]
        /\ tab' \in [Tabs -> Tab]
    BY <1>1, <1>3, <1>6
  <1>8. ListOK(x)
    BY <1>1, <1>5, <1>6 DEF ListOK
  <1>9. TabTypes'
    BY <1>3, <1>7 DEF TabTypes, Tab, Confirm, Cancel
  <1>10. PagesOK'
    BY <1>3, <1>6, <1>7 DEF PagesOK
  <1>11. EntriesOK'
    BY <1>1, <1>3, <1>7, <1>8, TabMoves
  <1>12. AnswersOK' /\ Bookings!LiveBookingKept'
    BY <1>3 DEF AnswersOK, Bookings!LiveBookingKept
  <1>13. \A s \in confirms \ {r} : s.tab \in Tabs /\ (s.heard => s.tab # t)
    BY <1>1 DEF WaitOK, TabTypes, Confirm, t
  <1>14. WaitOK' /\ SavedOK'
    BY <1>3, <1>6, <1>7, <1>13 DEF WaitOK, SavedOK
  <1>15. ForgetOK'
    BY <1>3, <1>5, <1>6, <1>7, <1>13 DEF ForgetOK
  <1>16. BookedOK'
    <2> SUFFICES ASSUME NEW ask, Settled(ask) PROVE Settled(ask)'
      BY <1>3 DEF BookedOK
    <2>1. CASE ask = r.ask
      BY <1>1, <1>5, <1>6, <1>7, <2>1 DEF Settled
    <2>2. CASE ask # r.ask
      <3>1. \A s \in confirms : s.ask = ask => s \in confirms'
        BY <1>3, <2>2
      <3>2. \A u \in Tabs : /\ tab'[u].saved = tab[u].saved
                            /\ tab[u].task.then = "forget" => tab'[u].task.then = "forget"
        BY <1>5, <1>6, <1>7
      <3> QED BY <3>1, <3>2 DEF Settled
    <2> QED BY <2>1, <2>2
  <1>17. Bookings!BookedOncePerAsk'
    BY <1>3 DEF Bookings!BookedOncePerAsk
  <1> QED BY <1>9, <1>10, <1>11, <1>12, <1>14, <1>15, <1>16, <1>17

-----------------------------------------------------------------------------
(* The tabs *)

LEMMA TabsInit == Bookings!Init => TabsInv
  <1> SUFFICES ASSUME Bookings!Init PROVE TabsInv
    OBVIOUS
  <1>1. PICK booked \in SUBSET Ids :
           /\ appts = [i \in Ids |-> IF i \in booked THEN "active" ELSE "free"]
           /\ cookie = {[id |-> i, status |-> "active"] : i \in booked}
           /\ owned = booked
    BY DEF Bookings!Init
  <1>2. /\ tab = [t \in Tabs |-> [page |-> "wizard", list |-> cookie, cancelling |-> None,
                                  saved |-> 0, token |-> None, task |-> Bookings!NoTask,
                                  sync |-> Bookings!NoSync]]
        /\ confirms = {} /\ cancels = {} /\ used = {} /\ asks = 0 /\ tokens = 0
        /\ askOf = [i \in Ids |-> 0] /\ lostAsks = {}
    BY DEF Bookings!Init
  <1>3. Entries(cookie) /\ owned \subseteq Bookings!IdsOf(cookie) /\ owned \subseteq Ids
    <2>1. \A b \in cookie : b \in Bookings!Summary /\ b.id \in booked /\ b.status = "active"
      BY <1>1 DEF Bookings!Summary, Bookings!Statuses
    <2>2. OneEach(cookie)
      BY <1>1 DEF OneEach
    <2>3. \A b \in cookie : Told(b)
      BY <1>1, <2>1 DEF Told
    <2>4. ASSUME NEW i \in booked PROVE i \in Bookings!IdsOf(cookie)
      <3> DEFINE b == [id |-> i, status |-> "active"]
      <3>1. b \in cookie /\ b.id = i
        BY <1>1
      <3> HIDE DEF b
      <3> QED BY <3>1 DEF Bookings!IdsOf
    <2> QED BY <1>1, <2>1, <2>2, <2>3, <2>4 DEF Entries
  <1>4. TabTypes
    BY <1>1, <1>2, <1>3, NothingOK DEF TabTypes, Tab, Entries, Bookings!Statuses
  <1>5. \A t \in Tabs : /\ tab[t].page = "wizard" /\ tab[t].list = cookie
                        /\ tab[t].sync = Bookings!NoSync /\ tab[t].saved = 0
                        /\ tab[t].task = Bookings!NoTask
    BY <1>2
  <1>6. EntriesOK
    BY <1>3, <1>5, NothingOK DEF EntriesOK, ListOK, Entries
  <1>7. PagesOK /\ AnswersOK /\ WaitOK /\ SavedOK /\ ForgetOK /\ BookedOK
    BY <1>1, <1>2, <1>5, NothingOK
       DEF PagesOK, AnswersOK, WaitOK, SavedOK, ForgetOK, BookedOK
  <1> QED
    BY <1>2, <1>3, <1>4, <1>6, <1>7
       DEF TabsInv, Bookings!LiveBookingKept, Bookings!BookedOncePerAsk

LEMMA TabsNext == TabsInv /\ [Bookings!Next]_(Bookings!vars) => TabsInv'
  <1> SUFFICES ASSUME TabsInv, [Bookings!Next]_(Bookings!vars) PROVE TabsInv'
    OBVIOUS
  <1>1. CASE UNCHANGED Bookings!vars
    <2>1. UNCHANGED <<appts, used, askOf, cookie, tab, confirms, cancels, asks, tokens,
                      lostAsks, failedAsks, owned, torn>>
      BY <1>1 DEF Bookings!vars, Bookings!server
    <2>2. TabTypes' /\ PagesOK'
      BY <2>1 DEF TabsInv, TabTypes, Tab, Confirm, PagesOK
    <2>3. EntriesOK' /\ AnswersOK' /\ Bookings!LiveBookingKept'
      BY <2>1, ServerMoves DEF TabsInv, AnswersOK, Bookings!LiveBookingKept
    <2>4. WaitOK' /\ SavedOK' /\ ForgetOK' /\ BookedOK' /\ Bookings!BookedOncePerAsk'
      BY <2>1
         DEF TabsInv, WaitOK, SavedOK, ForgetOK, BookedOK, Settled, Bookings!BookedOncePerAsk
    <2> QED BY <2>2, <2>3, <2>4 DEF TabsInv
  <1>2. CASE Bookings!Next
    BY <1>2, ReadStep, WriteStep, TabOpens, SyncStep, ListStep, CancelsStep,
       CancelAnsweredStep, ToGoogleStep, TabComesBack, ConfirmingStep, RequestStep,
       BookStep, ConfirmedStep
    DEF Bookings!Next
  <1> QED BY <1>1, <1>2

\* The invariant, of the component and of the part in the site.
LEMMA TabsAlways ==
    /\ Bookings!Spec => []TabsInv
    /\ SiteSpec => [](part = "tabs" => TabsInv)
  <1> DEFINE Inv == part = "tabs" => TabsInv
  <1>1. Bookings!Spec => []TabsInv
    BY TabsInit, TabsNext, PTL DEF Bookings!Spec
  <1>2. SiteInit => Inv
    BY TabsInit DEF SiteInit
  <1>3. Inv /\ [SiteNext]_SiteVars => Inv'
    BY TabsNext, BookingsMoves
  <1>4. SiteSpec => []Inv
    BY <1>2, <1>3, PTL DEF SiteSpec
  <1> QED
    BY <1>1, <1>4

\* The cookie keeps every booking that is live and that it had room for, unless
\* another tab wrote back what it had read before the entry was there: the gets and
\* the sets of all tabs interleave (cookie.ts:71-88, booking-wizard.tsx:106-133).
THEOREM LiveKept ==
    /\ Bookings!Spec => []Bookings!LiveBookingKept
    /\ SiteSpec => []LiveBookingKept
  <1>1. TabsInv => Bookings!LiveBookingKept
    BY DEF TabsInv
  <1>2. (part = "tabs" => TabsInv) => LiveBookingKept
    BY <1>1 DEF LiveBookingKept
  <1> QED
    BY <1>1, <1>2, TabsAlways, PTL

\* One click books once, unless the answer was lost or was an error after the
\* appointment was made: the page Google returns to asks once for what was saved
\* (booking-callback.tsx:18-56, appointments.service.ts:557-559).
THEOREM BookedOnce ==
    /\ Bookings!Spec => []Bookings!BookedOncePerAsk
    /\ SiteSpec => []BookedOncePerAsk
  <1>1. TabsInv => Bookings!BookedOncePerAsk
    BY DEF TabsInv
  <1>2. (part = "tabs" => TabsInv) => BookedOncePerAsk
    BY <1>1 DEF BookedOncePerAsk
  <1> QED
    BY <1>1, <1>2, TabsAlways, PTL

\* The appointments, the tabs and the requests keep their types.
LEMMA BookingsTyped == SiteSpec => [](part = "tabs" => Bookings!TypeOK)
  <1>1. TabsInv => Bookings!TypeOK
    <2> SUFFICES ASSUME TabsInv PROVE Bookings!TypeOK
      OBVIOUS
    <2>1. ASSUME NEW t \in Tabs
          PROVE  /\ tab[t].page \in {"wizard", "google", "callback"}
                 /\ tab[t].list \subseteq Bookings!Summary
                 /\ tab[t].cancelling \in Ids \cup {None}
                 /\ tab[t].saved \in 0..asks
                 /\ tab[t].token \in 1..tokens \cup {None}
                 /\ tab[t].sync.pc \in {"none", "sent", "back"}
                 /\ tab[t].page # "wizard" => tab[t].sync = Bookings!NoSync
                 /\ tab[t].task.edits \subseteq Bookings!Edit
                 /\ tab[t].task.got \subseteq Bookings!Summary
      <3>1. tab[t] \in Tab /\ tab[t].sync \in Sync /\ tab[t].task \in Script
        BY DEF TabsInv, TabTypes, Tab
      <3>2. tab[t].page # "wizard" => tab[t].sync = Bookings!NoSync
        BY DEF TabsInv, PagesOK
      <3> QED BY <3>1, <3>2 DEF Tab, Sync, Script
    <2>2. cookie \subseteq Bookings!Summary /\ \A b, c \in cookie : b.id = c.id => b = c
      BY DEF TabsInv, EntriesOK, Entries, OneEach
    <2> QED
      BY <2>1, <2>2 DEF TabsInv, TabTypes, Bookings!TypeOK
  <1> QED
    BY <1>1, TabsAlways, PTL

-----------------------------------------------------------------------------
(* The session of the panel (Panel) *)

PanelCall ==
    [pc : {"idle", "sent", "ok", "err", "401", "refreshing", "rotating", "refreshed", "refused"},
     op : Session!AllOps, tab : PanelTabs \cup {None}, sid : Sids \cup {None}, new : Sids \cup {None},
     again : BOOLEAN, heard : BOOLEAN]

PanelTypes ==
    /\ cookie \in [access : Sids \cup {None}, refresh : Sids \cup {None}]
    /\ tab \in [PanelTabs -> {"login", "panel"}]
    /\ call \in [Calls -> PanelCall]
    /\ sessions \in [Sids -> [state : {"none", "live", "revoked"}, root : Sids \cup {None}]]
    /\ fresh \subseteq Sids /\ marks \subseteq Session!Marks /\ signedOut \subseteq Sids

Renewals == {"refreshing", "rotating", "refreshed"}

\* What each stage of a call is about.
CallOK(q) ==
    /\ q.pc = "idle" => q = Session!NoCall
    /\ q.pc # "idle" /\ q.op = "logout" => q.sid # None /\ q.pc \in {"sent", "ok"}
    /\ q.pc \in Renewals => q.sid # None
    /\ q.pc = "refreshed" => q.new # None
    /\ q.pc = "ok" /\ q.op \in {"login", "profile"} => q.new # None
    /\ q.new # None => q.pc = "refreshed" \/ (q.pc = "ok" /\ q.op \in {"login", "profile"})

CallsOK == \A c \in Calls : CallOK(call[c])

Known(s) == sessions[s].state # "none"

\* Every session in use was issued, and its sign-in too.
KnownOK ==
    /\ \A s \in Sids : Known(s) <=> Session!Root(s) # None
    /\ \A s \in Sids : Known(s) => Known(Session!Root(s))
    /\ \A s \in {cookie.refresh, cookie.access} \ {None} : Known(s)
    /\ \A c \in Calls : \A s \in {call[c].sid, call[c].new} \ {None} : Known(s)
    /\ \A s \in signedOut : Known(s)

\* Who presents s for a new session or to close it.
Presents(c, s) == Session!Renewing(c, s) \/ Session!Ending(c, s)

\* A session that was just issued is in nobody else's hands.
NewOK ==
    \A c \in Calls : call[c].new # None =>
        /\ cookie.refresh # call[c].new
        /\ \A d \in Calls : ~Presents(d, call[c].new)
        /\ \A d \in Calls \ {c} : call[d].new # call[c].new

\* A call that renews or ends a session and that nobody waits for was lost.
Heard(q) ==
    \/ q.heard
    \/ q.pc \notin Renewals /\ (q.op = "logout" => q.pc = "idle")

LostOK == "lost" \notin marks => \A c \in Calls : Heard(call[c])

Clean == marks \cap {"raced", "lost"} = {}

\* Without a race a session is presented once at a time.
OnceOK ==
    "raced" \notin marks =>
        \A c, d \in Calls, s \in Sids : Presents(c, s) /\ Presents(d, s) => c = d

\* With nothing gone wrong and nothing closed, what a call presents is live, and
\* so is what the cookie holds unless a call has it.
HeldOK ==
    marks = {} =>
        /\ \A c \in Calls :
              call[c].pc \in {"refreshing", "rotating"} => Session!Live(call[c].sid)
        /\ \A c \in Calls : call[c].new # None => Session!Live(call[c].new)
        /\ cookie.refresh # None =>
              \/ Session!Live(cookie.refresh)
              \/ \E c \in Calls : call[c].pc = "refreshed" /\ call[c].sid = cookie.refresh
              \/ \E c \in Calls : Session!Ending(c, cookie.refresh)

\* s lives or is in somebody's hands.
InHand(s) ==
    \/ Session!Live(s)
    \/ cookie.refresh = s
    \/ \E c \in Calls : Presents(c, s) \/ call[c].new = s

\* c was given one of s and u for the other.
Swaps(c, s, u) == call[c].pc = "refreshed" /\ {call[c].sid, call[c].new} = {s, u}

\* Of one sign-in a single session is in hand, or the one it was just renewed to
\* as well.
TipOK ==
    Clean =>
        \A s, u \in Sids :
            Known(s) /\ Session!Root(s) = Session!Root(u) /\ InHand(s) /\ InHand(u) /\ s # u =>
                \E c \in Calls : Swaps(c, s, u)

\* What was presented and answered for is not live any more.
EndedOK ==
    \A c \in Calls :
        (call[c].op = "logout" /\ call[c].pc = "ok") \/ call[c].pc = "refreshed"
            => ~Session!Live(call[c].sid)

\* Nothing of a sign-in that was ended lives or can come back.
GoneOK ==
    \A s \in Sids : Known(s) /\ Session!Root(s) \in signedOut =>
        /\ ~Session!Live(s) /\ cookie.refresh # s
        /\ \A c \in Calls : /\ call[c].new # s
                            /\ ~(call[c].pc = "rotating" /\ call[c].sid = s)

PanelInv ==
    /\ PanelTypes /\ CallsOK /\ KnownOK /\ NewOK /\ LostOK /\ OnceOK /\ HeldOK /\ TipOK
    /\ EndedOK /\ GoneOK /\ Session!RefusedForCause

\* Nothing is no token, and the calls in play are calls there are.
LEMMA PanelConstants ==
    /\ None \notin Sids
    /\ Ops \subseteq {"login", "read", "profile", "password", "logoutAll", "logout"}
  BY SiteAssumption DEF Session!PanelAssumption

\* A step of the site is a step of this part or none, if the part is in play.
LEMMA SessionMoves ==
    ASSUME [SiteNext]_SiteVars, part' = "panel"
    PROVE  part = "panel" /\ [Session!Next]_(Session!vars)
  <1>1. CASE UNCHANGED SiteVars
    BY <1>1 DEF SiteVars, Session!vars, Session!history
  <1>2. CASE SiteNext
    BY <1>2 DEF SiteNext, WizardStep, BookingsStep, SessionStep
  <1> QED
    BY <1>1, <1>2

-----------------------------------------------------------------------------
(* Steps after which less is in hand *)

\* What such a step may do to a call.
Fits(c) ==
    /\ CallOK(call'[c])
    /\ "lost" \notin marks' => Heard(call'[c])
    /\ call'[c].sid \in {call[c].sid, cookie.access, None}
    /\ call'[c].new \in {call[c].new, None}
    /\ call'[c].pc \in Renewals => call[c].pc \in Renewals /\ call'[c].sid = call[c].sid
    /\ call'[c].pc \in {"refreshing", "rotating"} =>
          call[c].pc \in {"refreshing", "rotating"}
    /\ call'[c].pc = "rotating" => call[c].pc = "rotating" \/ Session!Live(call[c].sid)
    /\ call'[c].pc = "refreshed" => call[c].pc = "refreshed" /\ call'[c].new = call[c].new
    /\ call[c].pc = "refreshed" /\ "lost" \notin marks' => call'[c] = call[c]
    /\ call'[c].op = "logout" /\ call'[c].pc # "idle" =>
          /\ call[c].op = "logout" /\ call[c].pc # "idle" /\ call'[c].sid = call[c].sid
          /\ call'[c].pc = "ok" =>
                call[c].pc = "ok" \/ sessions'[call[c].sid].state # "live"
    /\ call[c].op = "logout" /\ call[c].pc # "idle" /\ "lost" \notin marks' =>
          \/ cookie'.refresh = None
          \/ call'[c].op = "logout" /\ call'[c].pc # "idle" /\ call'[c].sid = call[c].sid
    /\ call'[c].pc = "refused" => marks' # {}

RowsFit ==
    \A s \in Sids :
        /\ sessions'[s].root = sessions[s].root
        /\ sessions'[s].state = "none" <=> sessions[s].state = "none"
        /\ sessions'[s].state = "live" => sessions[s].state = "live"
        /\ marks' = {} =>
              sessions'[s] = sessions[s] \/ \E c \in Calls : Session!Ending(c, s)'

LEMMA SameFits ==
    ASSUME PanelInv, NEW c \in Calls, call'[c] = call[c], marks \subseteq marks'
    PROVE  Fits(c)
  <1>1. CallOK(call'[c])
    BY DEF PanelInv, CallsOK
  <1>2. "lost" \notin marks' => Heard(call'[c])
    BY DEF PanelInv, LostOK
  <1>3. call'[c].pc = "refused" => marks' # {}
    BY DEF PanelInv, Session!RefusedForCause
  <1> QED BY <1>1, <1>2, <1>3 DEF Fits

\* A sign-in that is ended has nothing in hand.
EndsFit ==
    \A r \in signedOut' \ signedOut :
        r \in Sids /\ Known(r) /\ \A s \in Sids : Session!Root(s) = r => ~InHand(s)'

LEMMA ShrinkKeeps ==
    ASSUME PanelInv, PanelTypes', \A c \in Calls : Fits(c), RowsFit,
           marks \subseteq marks', EndsFit,
           cookie'.refresh \in {cookie.refresh, None}, cookie'.access \in {cookie.access, None}
    PROVE  PanelInv'
  <1> USE DEF PanelInv
  <1>1. CallsOK' /\ LostOK' /\ Session!RefusedForCause'
    BY DEF Fits, CallsOK, LostOK, Session!RefusedForCause, CallOK, Heard, Session!NoCall
  <1>2. KnownOK'
    <2>1. \A s \in Sids : (Known(s) <=> Known(s)') /\ Session!Root(s)' = Session!Root(s)
      BY DEF RowsFit, Known, Session!Root
    <2>2. \A s \in {cookie'.refresh, cookie'.access} \ {None} : s \in Sids /\ Known(s)
      BY DEF KnownOK, PanelTypes
    <2>3. \A c \in Calls :
             \A s \in {call'[c].sid, call'[c].new} \ {None} : s \in Sids /\ Known(s)
      BY DEF KnownOK, PanelTypes, PanelCall, Fits
    <2>4. \A s \in signedOut' : s \in Sids /\ Known(s)
      BY DEF KnownOK, PanelTypes, EndsFit
    <2>5. \A s \in Sids : Known(s) => Session!Root(s) \in Sids
      BY DEF KnownOK, PanelTypes, Session!Root
    <2> QED BY <2>1, <2>2, <2>3, <2>4, <2>5 DEF KnownOK
  <1>3. \A c \in Calls, s \in Sids : Presents(c, s)' => Presents(c, s)
    BY DEF Fits, Presents, Session!Renewing, Session!Ending, Session!Underway, Renewals
  <1>4. \A c \in Calls :
           call'[c].new # None => call'[c].new = call[c].new /\ call[c].new \in Sids
    BY DEF Fits, PanelTypes, PanelCall
  <1>5. NewOK'
    BY <1>3, <1>4 DEF NewOK
  <1>6. OnceOK'
    BY <1>3 DEF OnceOK
  <1>7. \A s \in Sids : Session!Live(s)' => Session!Live(s)
    BY DEF RowsFit, Session!Live
  <1>8. \A s \in Sids : InHand(s)' => InHand(s)
    BY <1>3, <1>7, PanelConstants DEF InHand, Fits
  <1>9. HeldOK'
    <2> SUFFICES ASSUME marks' = {} PROVE HeldOK'
      BY DEF HeldOK
    <2>1. marks = {}
      OBVIOUS
    <2>2. \A s \in Sids :
             Session!Live(s) => Session!Live(s)' \/ \E c \in Calls : Session!Ending(c, s)'
      BY DEF RowsFit, Session!Live
    <2>3. ASSUME NEW c \in Calls, call'[c].pc \in {"refreshing", "rotating"}
          PROVE  sessions'[call'[c].sid].state = "live"
      <3>1. /\ call[c].pc \in {"refreshing", "rotating"} /\ call'[c].sid = call[c].sid
            /\ call[c].sid \in Sids
        BY <2>3 DEF Fits, Renewals, CallsOK, CallOK, PanelTypes, PanelCall
      <3>2. Session!Live(call[c].sid)
        BY <2>1, <3>1 DEF HeldOK
      <3>3. ASSUME NEW d \in Calls, Session!Ending(d, call[c].sid)' PROVE FALSE
        <4>1. Session!Renewing(c, call[c].sid)'
          BY <2>3, <3>1 DEF Session!Renewing
        <4>2. d = c
          BY <1>6, <3>1, <3>3, <4>1 DEF OnceOK, Presents
        <4>3. CallOK(call'[c]) /\ call'[c].op = "logout"
          BY <3>3, <4>2 DEF Session!Ending, Fits
        <4> QED BY <2>3, <4>3 DEF CallOK
      <3> QED BY <2>2, <3>1, <3>2, <3>3 DEF Session!Live
    <2>4. cookie'.refresh # None =>
              \/ Session!Live(cookie.refresh)'
              \/ \E c \in Calls :
                    call'[c].pc = "refreshed" /\ call'[c].sid = cookie'.refresh
              \/ \E c \in Calls : Session!Ending(c, cookie.refresh)'
      <3> SUFFICES ASSUME cookie'.refresh # None
                   PROVE  \/ Session!Live(cookie.refresh)'
                          \/ \E c \in Calls :
                                /\ call'[c].pc = "refreshed"
                                /\ call'[c].sid = cookie'.refresh
                          \/ \E c \in Calls : Session!Ending(c, cookie.refresh)'
        OBVIOUS
      <3>1. cookie'.refresh = cookie.refresh /\ cookie.refresh \in Sids
        BY DEF PanelTypes
      <3>2. CASE Session!Live(cookie.refresh)
        BY <2>2, <3>1, <3>2 DEF Session!Live, Session!Ending
      <3>3. ASSUME NEW c \in Calls, call[c].pc = "refreshed", call[c].sid = cookie.refresh
            PROVE  call'[c].pc = "refreshed" /\ call'[c].sid = cookie'.refresh
        BY <3>1, <3>3 DEF Fits
      <3>4. ASSUME NEW c \in Calls, Session!Ending(c, cookie.refresh)
            PROVE  Session!Ending(c, cookie.refresh)'
        BY <3>1, <3>4 DEF Fits, Session!Ending, Session!Underway
      <3> QED BY <2>1, <3>2, <3>3, <3>4 DEF HeldOK
    <2>5. ASSUME NEW c \in Calls, call'[c].new # None
          PROVE  sessions'[call'[c].new].state = "live"
      <3>1. /\ call'[c].new = call[c].new
            /\ call[c].new \in Sids
            /\ Session!Live(call[c].new)
        BY <1>4, <2>1, <2>5 DEF HeldOK
      <3>2. \A d \in Calls : ~Session!Ending(d, call[c].new)'
        BY <1>3, <2>5, <3>1 DEF NewOK, Presents
      <3> QED BY <2>2, <3>1, <3>2 DEF Session!Live
    <2> QED BY <2>3, <2>4, <2>5 DEF HeldOK, Session!Live
  <1>10. TipOK'
    <2> SUFFICES ASSUME Clean', NEW s \in Sids, NEW u \in Sids, Known(s)',
                        Session!Root(s)' = Session!Root(u)',
                        InHand(s)', InHand(u)', s # u
                 PROVE  \E c \in Calls : Swaps(c, s, u)'
      BY DEF TipOK
    <2>1. Clean /\ "lost" \notin marks'
      BY DEF Clean
    <2>2. Known(s) /\ Session!Root(s) = Session!Root(u) /\ InHand(s) /\ InHand(u)
      BY <1>8 DEF RowsFit, Known, Session!Root
    <2>3. PICK c \in Calls : Swaps(c, s, u)
      BY <2>1, <2>2 DEF TipOK
    <2>4. call'[c] = call[c]
      BY <2>1, <2>3 DEF Fits, Swaps
    <2> QED BY <2>3, <2>4 DEF Swaps
  <1>11. EndedOK'
    <2> SUFFICES ASSUME NEW c \in Calls,
                        \/ (call'[c].op = "logout" /\ call'[c].pc = "ok")
                        \/ call'[c].pc = "refreshed"
                 PROVE  ~Session!Live(call[c].sid)'
      BY DEF EndedOK
    <2>1. /\ call'[c].sid = call[c].sid /\ call[c].sid \in Sids
          /\ ~Session!Live(call[c].sid) \/ sessions'[call[c].sid].state # "live"
      BY DEF Fits, EndedOK, Renewals, CallsOK, CallOK, PanelTypes, PanelCall
    <2> QED BY <1>7, <2>1 DEF Session!Live
  <1>12. GoneOK'
    <2> SUFFICES ASSUME NEW s \in Sids, Known(s)', Session!Root(s)' \in signedOut'
                 PROVE  /\ ~Session!Live(s)' /\ cookie'.refresh # s
                        /\ \A c \in Calls : /\ call'[c].new # s
                                            /\ ~(call'[c].pc = "rotating" /\ call'[c].sid = s)
      BY DEF GoneOK
    <2>1. Known(s) /\ s # None /\ Session!Root(s) \in signedOut'
      BY PanelConstants DEF RowsFit, Known, Session!Root
    <2>2. CASE Session!Root(s) \notin signedOut
      <3>1. ~InHand(s)'
        BY <2>1, <2>2 DEF EndsFit
      <3> QED BY <3>1 DEF InHand, Presents, Session!Renewing
    <2>3. CASE Session!Root(s) \in signedOut
      <3>1. ~Session!Live(s) /\ cookie.refresh # s
        BY <2>1, <2>3 DEF GoneOK
      <3>2. ASSUME NEW c \in Calls
            PROVE  call'[c].new # s /\ ~(call'[c].pc = "rotating" /\ call'[c].sid = s)
        BY <2>1, <2>3, <3>1 DEF GoneOK, Fits, Renewals
      <3> QED BY <1>7, <2>1, <3>1, <3>2
    <2> QED BY <2>2, <2>3
  <1> QED BY <1>1, <1>2, <1>5, <1>6, <1>9, <1>10, <1>11, <1>12

-----------------------------------------------------------------------------
(* The steps that shrink what is in hand *)

LEMMA OneFits ==
    ASSUME PanelInv, NEW c \in Calls, Fits(c), marks \subseteq marks',
           \A d \in Calls \ {c} : call'[d] = call[d]
    PROVE  \A d \in Calls : Fits(d)
  BY SameFits

LEMMA SameEnds ==
    ASSUME signedOut' = signedOut PROVE EndsFit
  BY DEF EndsFit

LEMMA SameRows ==
    ASSUME UNCHANGED sessions PROVE RowsFit
  BY DEF RowsFit

LEMMA ClosedRows ==
    ASSUME PanelTypes, marks' # {}, sessions' = Session!Closed(sessions)
    PROVE  /\ RowsFit
           /\ sessions' \in [Sids -> [state : {"none", "live", "revoked"}, root : Sids \cup {None}]]
  <1>1. \A s \in Sids :
           sessions[s] \in [state : {"none", "live", "revoked"}, root : Sids \cup {None}]
    BY DEF PanelTypes
  <1>2. \A s \in Sids : sessions'[s] = IF sessions[s].state = "live"
                                       THEN [sessions[s] EXCEPT !.state = "revoked"] ELSE sessions[s]
    BY DEF Session!Closed
  <1>3. \A s \in Sids : /\ sessions'[s] \in [state : {"none", "live", "revoked"}, root : Sids \cup {None}]
                        /\ sessions'[s].root = sessions[s].root
                        /\ sessions'[s].state = "none" <=> sessions[s].state = "none"
                        /\ sessions'[s].state # "live"
    BY <1>1, <1>2
  <1>4. DOMAIN sessions' = Sids
    BY DEF Session!Closed
  <1> QED BY <1>3, <1>4 DEF RowsFit, Session!Closed

LEMMA IdleTyped ==
    Session!NoCall \in PanelCall /\ CallOK(Session!NoCall) /\ Heard(Session!NoCall)
  BY DEF Session!NoCall, PanelCall, Session!AllOps, CallOK, Renewals, Heard

\* A call that is over held nothing, or was lost.
LEMMA IdleFits ==
    ASSUME PanelInv, NEW c \in Calls, call'[c] = Session!NoCall, marks \subseteq marks',
           call[c].pc = "refreshed" => "lost" \in marks',
           Session!Underway(c) /\ call[c].op = "logout" =>
              "lost" \in marks' \/ cookie'.refresh = None
    PROVE  Fits(c)
  BY IdleTyped DEF Fits, Session!NoCall, Renewals, Session!Underway

LEMMA LeftFits ==
    ASSUME PanelInv, NEW c \in Calls, call'[c] = Session!Left(c), marks \subseteq marks',
           call[c].pc \in Renewals => "lost" \in marks',
           Session!Underway(c) /\ call[c].op = "logout" => "lost" \in marks'
    PROVE  Fits(c) /\ Session!Left(c) \in PanelCall
  <1> USE DEF PanelInv
  <1>1. call[c] \in PanelCall /\ CallOK(call[c])
    BY DEF PanelTypes, CallsOK
  <1>2. CASE Session!Left(c) = Session!NoCall
    BY <1>2, IdleTyped, IdleFits DEF Renewals
  <1>3. CASE Session!Left(c) # Session!NoCall
    <2>1. /\ Session!Left(c) = [call[c] EXCEPT !.heard = FALSE]
          /\ \/ call[c].pc \in {"refreshing", "rotating"}
             \/ (call[c].pc = "sent" /\ call[c].op # "read")
      BY <1>3 DEF Session!Left
    <2>2. /\ Session!Left(c).pc = call[c].pc
          /\ Session!Left(c).op = call[c].op
          /\ Session!Left(c).sid = call[c].sid
          /\ Session!Left(c).new = call[c].new /\ Session!Left(c) \in PanelCall
      BY <1>1, <2>1 DEF PanelCall
    <2>3. CallOK(Session!Left(c))
      BY <1>1, <2>1, <2>2 DEF CallOK, Renewals
    <2>4. "lost" \notin marks' => Heard(Session!Left(c)) /\ call[c].pc # "refreshed"
             /\ ~(call[c].op = "logout" /\ call[c].pc # "idle")
      BY <2>2 DEF Heard, Renewals, Session!Underway
    <2> QED BY <2>1, <2>2, <2>3, <2>4 DEF Fits, Renewals
  <1> QED BY <1>2, <1>3

LEMMA PanelOpens ==
    ASSUME PanelInv, NEW t \in PanelTabs, Session!Open(t)
    PROVE  PanelInv'
  <1> USE DEF PanelInv
  <1>1. /\ tab' = [tab EXCEPT ![t] = Session!Mounted]
        /\ Session!Mounted \in {"login", "panel"}
        /\ call' = [c \in Calls |-> IF c \in Session!CallsOf(t) THEN Session!Left(c) ELSE call[c]]
        /\ marks' = marks \cup Session!Unheard(Session!CallsOf(t))
        /\ UNCHANGED <<cookie, sessions, fresh, signedOut>>
    BY DEF Session!Open, Session!Mounted
  <1>2. marks \subseteq marks'
    BY <1>1
  <1>3. ASSUME NEW c \in Calls
        PROVE  Fits(c) /\ call'[c] \in PanelCall
    <2>1. CASE c \in Session!CallsOf(t)
      <3>1. call'[c] = Session!Left(c)
        BY <1>1, <2>1
      <3>2. /\ call[c].pc \in Renewals => "lost" \in marks'
            /\ Session!Underway(c) /\ call[c].op = "logout" => "lost" \in marks'
        BY <1>1, <2>1 DEF Session!Unheard, Renewals
      <3> QED BY <1>2, <3>1, <3>2, LeftFits
    <2>2. CASE c \notin Session!CallsOf(t)
      BY <1>1, <1>2, <2>2, SameFits DEF PanelTypes
    <2> QED BY <2>1, <2>2
  <1>4. PanelTypes'
    <2>1. call' \in [Calls -> PanelCall] /\ tab' \in [PanelTabs -> {"login", "panel"}]
      BY <1>1, <1>3 DEF PanelTypes
    <2>2. marks' \subseteq Session!Marks
      BY <1>1 DEF PanelTypes, Session!Unheard, Session!Marks
    <2> QED BY <1>1, <2>1, <2>2 DEF PanelTypes
  <1> QED BY <1>1, <1>2, <1>3, <1>4, SameRows, SameEnds, ShrinkKeeps

\* A call is sent with the access token of this moment, or with none.
LEMMA SendStep ==
    ASSUME PanelInv, NEW t \in PanelTabs, NEW c \in Calls,
           \/ Session!SendLogin(t, c)
           \/ \E op \in Ops : Session!Send(t, c, op)
           \/ Session!SendLogout(t, c) /\ cookie.refresh = None
    PROVE  PanelInv'
  <1> USE DEF PanelInv
  <1>1. call \in [Calls -> PanelCall] /\ cookie.access \in Sids \cup {None}
    BY DEF PanelTypes
  <1>2. ASSUME NEW op \in Ops, op # "logout", NEW s \in {cookie.access, None},
               Session!Start(t, c, op, s),
               UNCHANGED <<cookie, tab, sessions, fresh, Session!history>>
        PROVE  PanelInv'
    <2> DEFINE q == [Session!NoCall EXCEPT !.pc = "sent", !.op = op, !.tab = t, !.sid = s]
    <2>1. /\ q.pc = "sent" /\ q.op = op /\ q.sid = s /\ q.new = None /\ q.heard
          /\ q \in PanelCall
      BY <1>1, <1>2, PanelConstants DEF Session!NoCall, PanelCall, Session!AllOps
    <2>2. call' = [call EXCEPT ![c] = q] /\ call[c].pc = "idle" /\ marks' = marks
      BY <1>2 DEF Session!Start, Session!Underway, Session!history
    <2> HIDE DEF q
    <2>3. call'[c] = q /\ \A d \in Calls \ {c} : call'[d] = call[d]
      BY <1>1, <2>2
    <2>4. Fits(c)
      BY <1>2, <2>1, <2>2, <2>3 DEF Fits, CallOK, Renewals, Heard
    <2>5. PanelTypes'
      BY <1>2, <2>1, <2>2 DEF PanelTypes, Session!history
    <2> QED
      BY <1>2, <2>2, <2>3, <2>4, <2>5, OneFits, SameRows, SameEnds, ShrinkKeeps
         DEF Session!history
  <1>3. CASE Session!SendLogin(t, c)
    BY <1>2, <1>3 DEF Session!SendLogin, Session!Start
  <1>4. ASSUME NEW op \in Ops, Session!Send(t, c, op) PROVE PanelInv'
    BY <1>2, <1>4 DEF Session!Send, Session!Authenticated
  <1>5. CASE Session!SendLogout(t, c) /\ cookie.refresh = None
    <2>1. /\ tab' = [tab EXCEPT ![t] = "login"]
          /\ UNCHANGED <<cookie, call, marks, sessions, fresh, signedOut>>
      BY <1>5 DEF Session!SendLogout
    <2>2. PanelTypes'
      BY <2>1 DEF PanelTypes
    <2>3. \A d \in Calls : Fits(d)
      BY <2>1, SameFits
    <2> QED BY <2>1, <2>2, <2>3, SameRows, SameEnds, ShrinkKeeps
  <1> QED BY <1>3, <1>4, <1>5

\* Requests that are served, or not, without a session of their own.
LEMMA ServeStep ==
    ASSUME \/ PanelInv, NEW c \in Calls, Session!Refuse(c)
           \/ Session!Reject(c)
           \/ Session!ServeRead(c)
           \/ Session!ServeClose(c)
    PROVE  PanelInv'
  <1> USE DEF PanelInv
  <1>1. /\ call \in [Calls -> PanelCall] /\ CallOK(call[c]) /\ call[c].pc = "sent"
        /\ call[c].op # "logout" /\ call[c].new = None
    BY DEF PanelTypes, CallsOK, CallOK, Session!Refuse, Session!Reject,
           Session!ServeRead, Session!ServeClose, Session!Authenticated
  <1>2. PICK pc \in {"ok", "err", "401"} :
           /\ call' = [call EXCEPT ![c].pc = pc, ![c].sid = None]
           /\ pc = "ok" => call[c].op \notin {"login", "profile"}
    BY DEF Session!Refuse, Session!Reject, Session!ServeRead, Session!ServeClose,
           Session!Served
  <1> DEFINE q == [[call[c] EXCEPT !.pc = pc] EXCEPT !.sid = None]
  <1>3. /\ call'[c].pc = pc /\ call'[c].sid = None /\ call'[c].new = None
        /\ call'[c].op = call[c].op /\ call'[c].heard = call[c].heard
        /\ \A d \in Calls \ {c} : call'[d] = call[d]
        /\ call' \in [Calls -> PanelCall]
    <2>1. call[c] \in PanelCall
      BY <1>1
    <2>2. /\ q.pc = pc /\ q.sid = None /\ q.new = None /\ q.op = call[c].op
          /\ q.heard = call[c].heard /\ q \in PanelCall
      BY <1>1, <2>1 DEF PanelCall
    <2>3. call' = [call EXCEPT ![c] = q]
      BY <1>1, <1>2
    <2> HIDE DEF q
    <2> QED BY <1>1, <2>2, <2>3
  <1>4. /\ UNCHANGED <<cookie, tab, fresh, signedOut>>
        /\ marks \subseteq marks' /\ marks' \subseteq Session!Marks
        /\ \/ UNCHANGED sessions
           \/ marks' # {} /\ sessions' = Session!Closed(sessions)
    BY DEF Session!Refuse, Session!Reject, Session!ServeRead, Session!ServeClose,
           Session!history, PanelTypes, Session!Marks
  <1>5. Fits(c)
    <2>1. "lost" \notin marks' => Heard(call'[c])
      BY <1>1, <1>2, <1>3 DEF Heard, Renewals
    <2>2. CallOK(call'[c])
      BY <1>1, <1>2, <1>3 DEF CallOK, Renewals
    <2> QED BY <1>1, <1>2, <1>3, <2>1, <2>2 DEF Fits, Renewals
  <1>6. RowsFit /\ PanelTypes'
    BY <1>3, <1>4, SameRows, ClosedRows DEF PanelTypes
  <1> QED BY <1>3, <1>4, <1>5, <1>6, OneFits, SameEnds, ShrinkKeeps

LEMMA RefreshStep ==
    ASSUME PanelInv, NEW c \in Calls, Session!CheckRefresh(c) \/ Session!RefreshFails(c)
    PROVE  PanelInv'
  <1> USE DEF PanelInv
  <1>1. /\ call \in [Calls -> PanelCall] /\ CallOK(call[c])
        /\ call[c].pc \in {"refreshing", "rotating"} /\ call[c].new = None
    BY DEF PanelTypes, CallsOK, CallOK, Session!CheckRefresh, Session!RefreshFails
  <1>2. /\ UNCHANGED <<cookie, tab, fresh, signedOut>>
        /\ marks \subseteq marks' /\ marks' \subseteq Session!Marks
    BY DEF Session!CheckRefresh, Session!RefreshFails, Session!history, PanelTypes,
           Session!Marks
  <1>3. PICK pc \in {"rotating", "refused"} :
           /\ call' = [call EXCEPT ![c].pc = pc]
           /\ pc = "rotating" => Session!Live(call[c].sid)
           /\ pc = "refused" => marks' # {}
           /\ UNCHANGED sessions \/ (marks' # {} /\ sessions' = Session!Closed(sessions))
    <2>1. CASE Session!CheckRefresh(c) /\ Session!Live(call[c].sid)
      BY <2>1 DEF Session!CheckRefresh, Session!Answer
    <2>2. CASE Session!CheckRefresh(c) /\ ~Session!Live(call[c].sid)
      <3>1. marks # {} /\ marks' = marks
        BY <2>2 DEF HeldOK, Session!CheckRefresh, Session!history
      <3> QED BY <2>2, <3>1 DEF Session!CheckRefresh, Session!Answer
    <2>3. CASE Session!RefreshFails(c)
      BY <2>3 DEF Session!RefreshFails, Session!Answer
    <2> QED BY <2>1, <2>2, <2>3
  <1>4. /\ call'[c].pc = pc /\ call'[c].sid = call[c].sid /\ call'[c].new = None
        /\ call'[c].op = call[c].op /\ call'[c].heard = call[c].heard
        /\ \A d \in Calls \ {c} : call'[d] = call[d]
        /\ call' \in [Calls -> PanelCall]
    BY <1>1, <1>3 DEF PanelCall
  <1>5. "lost" \notin marks' => Heard(call'[c])
    BY <1>1, <1>2, <1>4 DEF LostOK, Heard, Renewals
  <1>6. Fits(c)
    BY <1>1, <1>3, <1>4, <1>5 DEF Fits, CallOK, Renewals
  <1>7. RowsFit /\ PanelTypes'
    BY <1>2, <1>3, <1>4, SameRows, ClosedRows DEF PanelTypes
  <1> QED BY <1>2, <1>4, <1>6, <1>7, OneFits, SameEnds, ShrinkKeeps

LEMMA ExpireStep ==
    ASSUME PanelInv, NEW s \in Sids, Session!ExpireAccess(s)
    PROVE  PanelInv'
  <1> USE DEF PanelInv
  <1>1. /\ fresh' \subseteq Sids /\ UNCHANGED <<tab, call, sessions, marks, signedOut>>
        /\ cookie' = cookie \/ cookie' = [cookie EXCEPT !.access = None]
    BY DEF Session!ExpireAccess, PanelTypes, Session!history
  <1>2. /\ cookie' \in [access : Sids \cup {None}, refresh : Sids \cup {None}]
        /\ cookie'.refresh = cookie.refresh /\ cookie'.access \in {cookie.access, None}
    BY <1>1 DEF PanelTypes
  <1>3. PanelTypes'
    BY <1>1, <1>2 DEF PanelTypes
  <1>4. \A d \in Calls : Fits(d)
    BY <1>1, SameFits
  <1> QED BY <1>1, <1>2, <1>3, <1>4, SameRows, SameEnds, ShrinkKeeps

\* A call ends, and with a refusal both cookies go.
LEMMA EndStep ==
    ASSUME PanelInv, NEW c \in Calls,
           \/ Session!Unauthorized(c) /\ (call[c].again \/ cookie.refresh = None)
           \/ Session!Refused(c) \/ Session!Ends(c) \/ Session!Dropped(c)
           \/ Session!AllClosed(c) /\ cookie.refresh = None
    PROVE  PanelInv'
  <1> USE DEF PanelInv
  <1>1. call \in [Calls -> PanelCall] /\ CallOK(call[c])
    BY DEF PanelTypes, CallsOK
  <1>2. /\ call' = [call EXCEPT ![c] = Session!NoCall]
        /\ UNCHANGED <<sessions, fresh, marks, signedOut>>
        /\ cookie' \in {cookie, Session!NoTokens}
    BY DEF Session!Unauthorized, Session!Refused, Session!Ends, Session!Dropped,
           Session!AllClosed, Session!Idle, Session!history
  <1>3. tab' \in [PanelTabs -> {"login", "panel"}]
    BY DEF Session!Unauthorized, Session!Refused, Session!Ends, Session!Dropped,
           Session!AllClosed, PanelTypes
  <1>4. /\ call'[c] = Session!NoCall /\ \A d \in Calls \ {c} : call'[d] = call[d]
        /\ call' \in [Calls -> PanelCall]
    BY <1>1, <1>2, IdleTyped
  <1>5. /\ call[c].pc = "refreshed" => "lost" \in marks'
        /\ Session!Underway(c) /\ call[c].op = "logout" => "lost" \in marks'
    <2>1. CASE Session!Dropped(c)
      BY <1>2, <2>1 DEF Session!Dropped, LostOK, Heard, Renewals, Session!Underway
    <2>2. CASE ~Session!Dropped(c)
      BY <1>1, <2>2
         DEF Session!Unauthorized, Session!Refused, Session!Ends, Session!AllClosed,
             CallOK
    <2> QED BY <2>1, <2>2
  <1>6. Fits(c)
    BY <1>2, <1>4, <1>5, IdleFits
  <1>7. /\ cookie' \in [access : Sids \cup {None}, refresh : Sids \cup {None}]
        /\ cookie'.refresh \in {cookie.refresh, None}
        /\ cookie'.access \in {cookie.access, None}
    BY <1>2 DEF PanelTypes, Session!NoTokens
  <1>8. PanelTypes'
    BY <1>2, <1>3, <1>4, <1>7 DEF PanelTypes
  <1> QED BY <1>2, <1>4, <1>6, <1>7, <1>8, OneFits, SameRows, SameEnds, ShrinkKeeps

LEMMA ConnectionStep ==
    ASSUME PanelInv, NEW c \in Calls, Session!ConnectionLost(c)
    PROVE  PanelInv'
  <1> USE DEF PanelInv
  <1>1. /\ call' = [call EXCEPT ![c] = Session!Left(c)]
        /\ marks' = marks \cup Session!Unheard({c})
        /\ cookie' \in {cookie, Session!NoTokens}
        /\ tab' \in [PanelTabs -> {"login", "panel"}]
        /\ UNCHANGED <<sessions, fresh, signedOut>> /\ call \in [Calls -> PanelCall]
    BY DEF Session!ConnectionLost, PanelTypes
  <1>2. call'[c] = Session!Left(c) /\ \A d \in Calls \ {c} : call'[d] = call[d]
    BY <1>1
  <1>3. /\ call[c].pc \in Renewals => "lost" \in marks'
        /\ Session!Underway(c) /\ call[c].op = "logout" => "lost" \in marks'
    BY <1>1 DEF Session!Unheard, Renewals
  <1>4. Fits(c) /\ Session!Left(c) \in PanelCall
    BY <1>1, <1>2, <1>3, LeftFits
  <1>5. /\ cookie' \in [access : Sids \cup {None}, refresh : Sids \cup {None}]
        /\ cookie'.refresh \in {cookie.refresh, None}
        /\ cookie'.access \in {cookie.access, None}
    BY <1>1 DEF PanelTypes, Session!NoTokens
  <1>6. PanelTypes'
    BY <1>1, <1>4, <1>5 DEF PanelTypes, Session!Unheard, Session!Marks
  <1> QED BY <1>1, <1>2, <1>4, <1>5, <1>6, OneFits, SameRows, SameEnds, ShrinkKeeps

LEMMA AnswerTyped ==
    ASSUME call \in [Calls -> PanelCall], NEW c \in Calls,
           NEW pc \in {"ok", "refreshing", "refreshed"}, NEW s \in Sids,
           call' = [call EXCEPT ![c].pc = pc, ![c].new = s]
    PROVE  /\ call'[c].pc = pc /\ call'[c].new = s /\ call'[c].sid = call[c].sid
           /\ call'[c].op = call[c].op /\ call'[c].heard = call[c].heard
           /\ \A d \in Calls \ {c} : call'[d] = call[d]
           /\ call' \in [Calls -> PanelCall]
  <1> DEFINE q == [[call[c] EXCEPT !.pc = pc] EXCEPT !.new = s]
  <1>1. call[c] \in PanelCall
    OBVIOUS
  <1>2. /\ q.pc = pc /\ q.new = s /\ q.sid = call[c].sid /\ q.op = call[c].op
        /\ q.heard = call[c].heard /\ q \in PanelCall
    BY <1>1 DEF PanelCall
  <1>3. call' = [call EXCEPT ![c] = q]
    OBVIOUS
  <1> HIDE DEF q
  <1> QED BY <1>2, <1>3

\* A logout is served: its session is closed.
LEMMA LogoutStep ==
    ASSUME PanelInv, NEW c \in Calls, Session!ServeLogout(c)
    PROVE  PanelInv'
  <1> USE DEF PanelInv
  <1>1. /\ call \in [Calls -> PanelCall] /\ CallOK(call[c]) /\ call[c].pc = "sent"
        /\ call[c].op = "logout" /\ call[c].new = None /\ call[c].sid \in Sids
    BY DEF PanelTypes, CallsOK, CallOK, Session!ServeLogout, PanelCall
  <1>2. /\ call' = [call EXCEPT ![c].pc = "ok"]
        /\ sessions' = [sessions EXCEPT ![call[c].sid].state = "revoked"]
        /\ UNCHANGED <<cookie, tab, fresh, marks, signedOut>>
    BY DEF Session!ServeLogout, Session!Answer, Session!history
  <1>3. /\ call'[c].pc = "ok" /\ call'[c].sid = call[c].sid /\ call'[c].new = None
        /\ call'[c].op = "logout" /\ call'[c].heard = call[c].heard
        /\ \A d \in Calls \ {c} : call'[d] = call[d]
        /\ call' \in [Calls -> PanelCall]
    BY <1>1, <1>2 DEF PanelCall
  <1> DEFINE R == [state : {"none", "live", "revoked"}, root : Sids \cup {None}]
             o == call[c].sid
             w == [sessions[o] EXCEPT !.state = "revoked"]
  <1>4. sessions \in [Sids -> R] /\ o \in Sids /\ Known(o)
    BY <1>1, PanelConstants DEF PanelTypes, KnownOK
  <1>5. w \in R /\ w.state = "revoked" /\ w.root = sessions[o].root
    BY <1>4
  <1>6. sessions' = [sessions EXCEPT ![o] = w]
    BY <1>2
  <1>7. \A s \in Sids : s = o => Session!Ending(c, s)'
    BY <1>3 DEF Session!Ending, Session!Underway
  <1> HIDE DEF w, R
  <1>8. sessions'[o] = w /\ (\A s \in Sids \ {o} : sessions'[s] = sessions[s])
        /\ sessions' \in [Sids -> R]
    BY <1>4, <1>5, <1>6
  <1>9. RowsFit
    <2> SUFFICES ASSUME NEW s \in Sids
                 PROVE  /\ sessions'[s].root = sessions[s].root
                        /\ sessions'[s].state = "none" <=> sessions[s].state = "none"
                        /\ sessions'[s].state = "live" => sessions[s].state = "live"
                        /\ sessions'[s] = sessions[s] \/ Session!Ending(c, s)'
      BY DEF RowsFit
    <2>1. CASE s = o
      BY <1>4, <1>5, <1>7, <1>8, <2>1 DEF Known
    <2>2. CASE s # o
      BY <1>8, <2>2
    <2> QED BY <2>1, <2>2
  <1>10. PanelTypes'
    BY <1>2, <1>3, <1>8 DEF PanelTypes, R
  <1>11. "lost" \notin marks' => Heard(call'[c])
    BY <1>1, <1>2, <1>3 DEF LostOK, Heard, Renewals
  <1>12. Fits(c)
    BY <1>1, <1>3, <1>5, <1>8, <1>11 DEF Fits, CallOK, Renewals
  <1> QED BY <1>2, <1>3, <1>9, <1>10, <1>12, OneFits, SameEnds, ShrinkKeeps

\* The answer to a logout: with nothing gone wrong, the session it closed was
\* the only one in hand of its sign-in.
LEMMA SignedOutStep ==
    ASSUME PanelInv, NEW c \in Calls, Session!SignedOut(c)
    PROVE  PanelInv'
  <1> USE DEF PanelInv
  <1> DEFINE o == call[c].sid
  <1>1. /\ call \in [Calls -> PanelCall] /\ CallOK(call[c]) /\ call[c].pc = "ok"
        /\ call[c].op = "logout" /\ call[c].new = None /\ o \in Sids
    BY DEF PanelTypes, CallsOK, CallOK, Session!SignedOut, PanelCall
  <1>2. /\ call' = [call EXCEPT ![c] = Session!NoCall] /\ cookie' = Session!NoTokens
        /\ UNCHANGED <<sessions, fresh, marks>>
        /\ tab' \in [PanelTabs -> {"login", "panel"}]
        /\ signedOut' = signedOut \cup IF Session!Undisturbed(c) THEN {Session!Root(o)} ELSE {}
    BY DEF Session!SignedOut, Session!Idle, PanelTypes
  <1>3. /\ call'[c] = Session!NoCall /\ \A d \in Calls \ {c} : call'[d] = call[d]
        /\ call' \in [Calls -> PanelCall]
    BY <1>1, <1>2, IdleTyped
  <1>4. Known(o) /\ Session!Root(o) \in Sids /\ Known(Session!Root(o))
    BY <1>1, PanelConstants DEF PanelTypes, KnownOK, Session!Root
  <1>5. PanelTypes'
    BY <1>2, <1>3, <1>4 DEF PanelTypes, Session!NoTokens
  <1>6. cookie'.refresh = None /\ cookie'.access = None
    BY <1>2 DEF Session!NoTokens
  <1>7. Fits(c)
    BY <1>1, <1>2, <1>3, <1>6, IdleFits
  <1>8. EndsFit
    <2> SUFFICES ASSUME Session!Undisturbed(c), NEW x \in Sids,
                        Session!Root(x) = Session!Root(o), InHand(x)'
                 PROVE  FALSE
      BY <1>2, <1>4 DEF EndsFit, Session!Root
    <2>1. Clean /\ "raced" \notin marks
      BY DEF Session!Undisturbed, Clean
    <2>2. Session!Ending(c, o) /\ ~Session!Live(o)
      BY <1>1 DEF Session!Ending, Session!Underway, EndedOK
    <2>3. \A d \in Calls, s \in Sids : Presents(d, s)' => d # c /\ Presents(d, s)
      BY <1>3
         DEF Presents, Session!Renewing, Session!Ending, Session!Underway,
             Session!NoCall
    <2>4. \A d \in Calls : call'[d].new \in Sids => d # c /\ call[d].new = call'[d].new
      BY <1>3, PanelConstants DEF Session!NoCall
    <2>5. InHand(x)
      BY <1>2, <1>6, <2>3, <2>4, PanelConstants DEF InHand, Session!Live
    <2>6. \A d \in Calls \ {c} : ~Presents(d, o)
      BY <1>1, <2>1, <2>2 DEF OnceOK, Presents
    <2>7. \A d \in Calls : call[d].new # o
      BY <1>1, <2>2, PanelConstants DEF NewOK, Presents
    <2>8. CASE x = o
      BY <1>2, <1>6, <2>2, <2>3, <2>4, <2>6, <2>7, <2>8, PanelConstants
         DEF InHand, Session!Live
    <2>9. CASE x # o
      <3>1. InHand(o)
        BY <2>2 DEF InHand, Presents
      <3>2. PICK d \in Calls : Swaps(d, o, x)
        BY <1>1, <1>4, <2>1, <2>5, <2>9, <3>1 DEF TipOK
      <3>3. call[d].sid = o
        BY <2>7, <3>2 DEF Swaps
      <3> QED BY <1>1, <2>6, <3>2, <3>3 DEF Swaps, Presents, Session!Renewing
    <2> QED BY <2>8, <2>9
  <1> QED BY <1>2, <1>3, <1>5, <1>6, <1>7, <1>8, OneFits, SameRows, ShrinkKeeps

-----------------------------------------------------------------------------
(* The steps that put something in a call's hands *)

\* The refresh cookie is taken, for a renewal or a logout.
LEMMA TokenTaken ==
    ASSUME PanelInv, PanelTypes', NEW c \in Calls, cookie.refresh # None,
           Session!Contest(c, cookie.refresh),
           UNCHANGED <<cookie, sessions, signedOut>>,
           \A d \in Calls \ {c} : call'[d] = call[d],
           call[c].pc \notin Renewals, ~(call[c].op = "logout" /\ call[c].pc # "idle"),
           call'[c].sid = cookie.refresh, call'[c].new = None, call'[c].heard,
           CallOK(call'[c]),
           \/ call'[c].pc = "refreshing" /\ call'[c].op # "logout"
           \/ call'[c].pc = "sent" /\ call'[c].op = "logout"
    PROVE  PanelInv'
  <1> USE DEF PanelInv
  <1> DEFINE s == cookie.refresh
  <1>1. /\ s \in Sids /\ Known(s) /\ marks \subseteq marks'
        /\ "lost" \in marks' => "lost" \in marks
        /\ "raced" \notin marks' => \A d \in Calls \ {c} : ~Presents(d, s)
    BY DEF PanelTypes, KnownOK, Session!Contest, Presents
  <1>2. CallsOK' /\ LostOK' /\ Session!RefusedForCause'
    BY <1>1 DEF CallsOK, LostOK, Session!RefusedForCause, Heard
  <1>3. KnownOK'
    <2>1. \A x \in Sids : (Known(x) <=> Known(x)') /\ Session!Root(x)' = Session!Root(x)
      BY DEF Known, Session!Root
    <2>2. \A x \in {cookie.refresh, cookie.access} \ {None} : x \in Sids /\ Known(x)
      BY DEF KnownOK, PanelTypes
    <2>3. \A d \in Calls :
             \A x \in {call'[d].sid, call'[d].new} \ {None} : x \in Sids /\ Known(x)
      BY <1>1 DEF KnownOK, PanelTypes, PanelCall
    <2>4. \A x \in signedOut : x \in Sids /\ Known(x)
      BY DEF KnownOK, PanelTypes
    <2>5. \A x \in Sids : Known(x) => Session!Root(x) \in Sids
      BY DEF KnownOK, PanelTypes, Session!Root
    <2> QED BY <2>1, <2>2, <2>3, <2>4, <2>5 DEF KnownOK
  <1>4. \A d \in Calls, x \in Sids :
           Presents(d, x)' <=> IF d = c THEN x = s ELSE Presents(d, x)
    BY DEF Presents, Session!Renewing, Session!Ending, Session!Underway, Renewals
  <1>5. \A x \in Sids : ~Presents(c, x)
    BY DEF Presents, Session!Renewing, Session!Ending, Session!Underway, Renewals
  <1>6. \A d \in Calls : call'[d].new # None =>
           d # c /\ call'[d].new = call[d].new /\ call[d].new \in Sids
    BY DEF PanelTypes, PanelCall
  <1>7. NewOK'
    BY <1>4, <1>6 DEF NewOK
  <1>8. OnceOK'
    BY <1>1, <1>4 DEF OnceOK
  <1>9. HeldOK'
    <2> SUFFICES ASSUME marks' = {} PROVE HeldOK'
      BY DEF HeldOK
    <2>1. marks = {} /\ \A d \in Calls : ~Presents(d, s)
      BY <1>1, <1>5
    <2>2. Session!Live(s)
      BY <1>1, <2>1 DEF HeldOK, Presents, Session!Renewing
    <2>3. ASSUME NEW d \in Calls, call'[d].pc \in {"refreshing", "rotating"}
          PROVE  sessions'[call'[d].sid].state = "live"
      BY <2>1, <2>2, <2>3 DEF HeldOK, Session!Live
    <2>4. ASSUME NEW d \in Calls, call'[d].new # None
          PROVE  sessions'[call'[d].new].state = "live"
      BY <1>6, <2>1, <2>4 DEF HeldOK, Session!Live
    <2> QED BY <2>2, <2>3, <2>4 DEF HeldOK, Session!Live
  <1>10. \A x \in Sids : InHand(x)' => InHand(x)
    BY <1>1, <1>4, <1>6, PanelConstants DEF InHand, Session!Live
  <1>11. TipOK'
    <2> SUFFICES ASSUME Clean', NEW x \in Sids, NEW u \in Sids, Known(x)',
                        Session!Root(x)' = Session!Root(u)',
                        InHand(x)', InHand(u)', x # u
                 PROVE  \E d \in Calls : Swaps(d, x, u)'
      BY DEF TipOK
    <2>1. Clean /\ Known(x) /\ Session!Root(x) = Session!Root(u) /\ InHand(x) /\ InHand(u)
      BY <1>1, <1>10 DEF Clean, Known, Session!Root
    <2>2. PICK d \in Calls : Swaps(d, x, u)
      BY <2>1 DEF TipOK
    <2>3. d # c
      BY <2>2 DEF Swaps, Renewals
    <2> QED BY <2>2, <2>3 DEF Swaps
  <1>12. EndedOK'
    BY DEF EndedOK, Session!Live
  <1>13. GoneOK'
    BY <1>6, PanelConstants DEF GoneOK, Known, Session!Root, Session!Live
  <1> QED BY <1>2, <1>3, <1>7, <1>8, <1>9, <1>11, <1>12, <1>13

\* A 401 is answered with a refresh, a logout is sent.
LEMMA RenewStep ==
    ASSUME PanelInv, NEW c \in Calls, Session!Unauthorized(c), ~call[c].again,
           cookie.refresh # None
    PROVE  PanelInv'
  <1> USE DEF PanelInv
  <1>1. /\ call \in [Calls -> PanelCall] /\ CallOK(call[c]) /\ call[c].pc = "401"
        /\ call[c].heard /\ call[c].op # "logout" /\ call[c].new = None
        /\ cookie.refresh \in Sids
    BY DEF PanelTypes, CallsOK, CallOK, Session!Unauthorized
  <1>2. /\ call' = [call EXCEPT ![c].pc = "refreshing", ![c].sid = cookie.refresh]
        /\ Session!Contest(c, cookie.refresh)
        /\ UNCHANGED <<cookie, tab, sessions, fresh, signedOut>>
    BY DEF Session!Unauthorized
  <1> DEFINE q == [[call[c] EXCEPT !.pc = "refreshing"] EXCEPT !.sid = cookie.refresh]
  <1>3. /\ q.pc = "refreshing" /\ q.sid = cookie.refresh /\ q.new = None
        /\ q.op # "logout" /\ q.heard /\ q \in PanelCall
    <2>1. call[c] \in PanelCall
      BY <1>1
    <2> QED BY <1>1, <2>1 DEF PanelCall
  <1>4. call' = [call EXCEPT ![c] = q]
    BY <1>1, <1>2
  <1> HIDE DEF q
  <1>5. /\ call'[c] = q /\ (\A d \in Calls \ {c} : call'[d] = call[d])
        /\ call' \in [Calls -> PanelCall]
    BY <1>1, <1>3, <1>4
  <1>6. PanelTypes'
    BY <1>2, <1>5 DEF PanelTypes, Session!Contest, Session!Marks
  <1>7. CallOK(q)
    BY <1>1, <1>3, PanelConstants DEF CallOK, Renewals
  <1> QED BY <1>1, <1>2, <1>3, <1>5, <1>6, <1>7, TokenTaken DEF Renewals

LEMMA LeavesStep ==
    ASSUME PanelInv, NEW c \in Calls, cookie.refresh # None,
           Session!AllClosed(c) \/ \E t \in PanelTabs : Session!SendLogout(t, c)
    PROVE  PanelInv'
  <1> USE DEF PanelInv
  <1>1. /\ call \in [Calls -> PanelCall] /\ call[c] \in PanelCall /\ CallOK(call[c])
        /\ cookie.refresh \in Sids
    BY DEF PanelTypes, CallsOK
  <1>2. PICK q \in PanelCall :
           /\ call' = [call EXCEPT ![c] = q]
           /\ q.pc = "sent"
           /\ q.op = "logout"
           /\ q.sid = cookie.refresh
           /\ q.new = None
           /\ q.heard
    <2>1. CASE Session!AllClosed(c)
      <3> DEFINE q == [[[call[c] EXCEPT !.pc = "sent"] EXCEPT !.op = "logout"] EXCEPT !.sid = cookie.refresh]
      <3>1. call[c].heard /\ call[c].new = None
        BY <1>1, <2>1 DEF Session!AllClosed, CallOK
      <3>2. /\ q.pc = "sent"
            /\ q.op = "logout"
            /\ q.sid = cookie.refresh
            /\ q.new = None
            /\ q.heard
            /\ q \in PanelCall
        BY <1>1, <3>1 DEF PanelCall, Session!AllOps
      <3>3. call' = [call EXCEPT ![c] = q]
        BY <1>1, <2>1 DEF Session!AllClosed
      <3> HIDE DEF q
      <3> QED BY <3>2, <3>3
    <2>2. ASSUME NEW t \in PanelTabs, Session!SendLogout(t, c)
          PROVE  \E q \in PanelCall :
                    /\ call' = [call EXCEPT ![c] = q]
                    /\ q.pc = "sent"
                    /\ q.op = "logout"
                    /\ q.sid = cookie.refresh
                    /\ q.new = None
                    /\ q.heard
      <3> DEFINE q == [Session!NoCall EXCEPT !.pc = "sent", !.op = "logout", !.tab = t, !.sid = cookie.refresh]
      <3>1. /\ q.pc = "sent"
            /\ q.op = "logout"
            /\ q.sid = cookie.refresh
            /\ q.new = None
            /\ q.heard
            /\ q \in PanelCall
        BY <1>1 DEF Session!NoCall, PanelCall, Session!AllOps
      <3>2. call' = [call EXCEPT ![c] = q]
        BY <2>2 DEF Session!SendLogout, Session!Start
      <3> HIDE DEF q
      <3> QED BY <3>1, <3>2
    <2> QED BY <2>1, <2>2
  <1>3. /\ Session!Contest(c, cookie.refresh)
        /\ UNCHANGED <<cookie, tab, sessions, fresh, signedOut>>
    BY DEF Session!AllClosed, Session!SendLogout
  <1>4. /\ call[c].pc \notin Renewals /\ ~(call[c].op = "logout" /\ call[c].pc # "idle")
    BY DEF Session!AllClosed, Session!SendLogout, Session!Start, Session!Underway,
           Renewals
  <1>5. /\ call'[c] = q /\ (\A d \in Calls \ {c} : call'[d] = call[d])
        /\ call' \in [Calls -> PanelCall]
    BY <1>1, <1>2
  <1>6. PanelTypes'
    BY <1>3, <1>5 DEF PanelTypes, Session!Contest, Session!Marks
  <1>7. CallOK(q)
    BY <1>1, <1>2, PanelConstants DEF CallOK, Renewals
  <1> QED BY <1>1, <1>2, <1>3, <1>4, <1>5, <1>6, <1>7, TokenTaken

\* A sign-in, or a profile saved: a session that nobody has had in hand.
LEMMA IssueStep ==
    ASSUME PanelInv, NEW c \in Calls, Session!ServeLogin(c) \/ Session!ServeProfile(c)
    PROVE  PanelInv'
  <1> USE DEF PanelInv
  <1> DEFINE R == [state : {"none", "live", "revoked"}, root : Sids \cup {None}]
  <1>1. /\ call \in [Calls -> PanelCall] /\ CallOK(call[c]) /\ call[c].pc = "sent"
        /\ call[c].op \in {"login", "profile"} /\ call[c].new = None
        /\ sessions \in [Sids -> R]
    BY DEF PanelTypes, CallsOK, CallOK, Session!ServeLogin, Session!ServeProfile
  <1>2. PICK s \in Sids, rows \in {sessions, Session!Closed(sessions)} :
           Session!Issue(c, s, rows) /\ (rows = sessions \/ marks' # {})
    BY DEF Session!ServeLogin, Session!ServeProfile
  <1>3. /\ UNCHANGED <<cookie, tab, signedOut>>
        /\ marks \subseteq marks'
        /\ marks' \subseteq Session!Marks
        /\ marks' \cap {"raced", "lost"} = marks \cap {"raced", "lost"}
    BY DEF Session!ServeLogin, Session!ServeProfile, Session!history, PanelTypes,
           Session!Marks
  <1>4. /\ call' = [call EXCEPT ![c].pc = "ok", ![c].new = s]
        /\ sessions' = [rows EXCEPT ![s] = [state |-> "live", root |-> s]]
        /\ fresh' = fresh \cup {s} /\ ~Known(s)
    BY <1>2 DEF Session!Issue, Session!AnswerWith, Known
  <1>5. /\ call'[c].pc = "ok" /\ call'[c].new = s /\ call'[c].sid = call[c].sid
        /\ call'[c].op = call[c].op /\ call'[c].heard = call[c].heard
        /\ \A d \in Calls \ {c} : call'[d] = call[d]
        /\ call' \in [Calls -> PanelCall]
    BY <1>1, <1>4, AnswerTyped
  <1>6. /\ rows \in [Sids -> R]
        /\ \A x \in Sids : /\ rows[x].root = sessions[x].root
                           /\ rows[x].state = "none" <=> sessions[x].state = "none"
                           /\ rows[x].state = "live" => sessions[x].state = "live"
                           /\ marks' = {} => rows[x] = sessions[x]
    <2>1. CASE rows = sessions
      BY <1>1, <2>1
    <2>2. CASE rows = Session!Closed(sessions) /\ marks' # {}
      <3>1. \A x \in Sids : sessions[x] \in R
        BY <1>1
      <3>2. \A x \in Sids : rows[x] = IF sessions[x].state = "live"
                                      THEN [sessions[x] EXCEPT !.state = "revoked"] ELSE sessions[x]
        BY <2>2 DEF Session!Closed
      <3>3. \A x \in Sids : /\ rows[x] \in R
                            /\ rows[x].root = sessions[x].root
                            /\ rows[x].state = "none" <=> sessions[x].state = "none"
                            /\ rows[x].state # "live"
        BY <3>1, <3>2
      <3>4. rows = [x \in Sids |-> rows[x]]
        BY <2>2 DEF Session!Closed
      <3> QED BY <2>2, <3>3, <3>4
    <2> QED BY <1>2, <2>1, <2>2
  <1>7. [state |-> "live", root |-> s] \in R
    OBVIOUS
  <1>8. /\ sessions' \in [Sids -> R] /\ sessions'[s].state = "live" /\ sessions'[s].root = s
        /\ \A x \in Sids \ {s} : sessions'[x] = rows[x]
    <2> HIDE DEF R
    <2> QED BY <1>4, <1>6, <1>7
  <1>9. PanelTypes'
    BY <1>3, <1>4, <1>5, <1>8 DEF PanelTypes
  <1>10. \A x \in Sids \ {s} : /\ Known(x)' <=> Known(x)
                               /\ Session!Root(x)' = Session!Root(x)
                               /\ Session!Live(x)' => Session!Live(x)
                               /\ marks' = {} => (Session!Live(x)' <=> Session!Live(x))
    BY <1>6, <1>8 DEF Known, Session!Root, Session!Live
  <1>11. Known(s)' /\ Session!Root(s)' = s /\ Session!Live(s)'
    BY <1>8 DEF Known, Session!Root, Session!Live
  <1>12. /\ cookie.refresh # s /\ cookie.access # s /\ s \notin signedOut /\ s # None
         /\ \A d \in Calls : call[d].sid # s /\ call[d].new # s
         /\ \A x \in Sids : Session!Root(x) # s
    BY <1>4, PanelConstants DEF KnownOK
  <1>13. CallsOK' /\ Session!RefusedForCause'
    BY <1>1, <1>3, <1>5, <1>12 DEF CallsOK, CallOK, Renewals, Session!RefusedForCause
  <1>14. LostOK'
    <2>1. Heard(call[c]) => Heard(call'[c])
      BY <1>1, <1>5 DEF Heard, Renewals
    <2> QED BY <1>3, <1>5, <2>1 DEF LostOK
  <1>15. KnownOK'
    <2>1. \A x \in {cookie.refresh, cookie.access} \ {None} : x \in Sids \ {s} /\ Known(x)
      BY <1>12 DEF KnownOK, PanelTypes
    <2>2. \A d \in Calls : \A x \in {call'[d].sid, call'[d].new} \ {None} :
             x \in Sids /\ (x = s \/ Known(x))
      BY <1>1, <1>5 DEF KnownOK, PanelCall
    <2>3. \A x \in signedOut : x \in Sids \ {s} /\ Known(x)
      BY <1>12 DEF KnownOK, PanelTypes
    <2>4. \A x \in Sids :
             Known(x) => Session!Root(x) \in Sids \ {s} /\ Known(Session!Root(x))
      BY <1>12 DEF KnownOK, PanelTypes, Session!Root
    <2>5. \A x \in Sids :
             /\ (Known(x) <=> Session!Root(x) # None)
             /\ (Known(x)' <=> Session!Root(x)' # None)
      BY <1>10, <1>11, <1>12 DEF KnownOK
    <2>6. \A x \in Sids : Known(x)' => Known(Session!Root(x))'
      <3> SUFFICES ASSUME NEW x \in Sids, Known(x)' PROVE Known(Session!Root(x))'
        OBVIOUS
      <3>1. CASE x = s
        BY <1>11, <3>1 DEF Known
      <3>2. CASE x # s
        <4>1. /\ Session!Root(x)' = Session!Root(x) /\ Session!Root(x) \in Sids \ {s}
              /\ Known(Session!Root(x))
          BY <1>10, <2>4, <3>2
        <4>2. \A y \in Sids \ {s} : Known(y) => Known(y)'
          BY <1>10
        <4> QED BY <4>1, <4>2 DEF Known
      <3> QED BY <3>1, <3>2
    <2>7. \A x \in Sids : x = s \/ Known(x) => Known(x)'
      BY <1>10, <1>11
    <2> QED BY <1>3, <2>1, <2>2, <2>3, <2>5, <2>6, <2>7 DEF KnownOK
  <1>16. \A d \in Calls, x \in Sids : Presents(d, x)' <=> Presents(d, x)
    BY <1>1, <1>5 DEF Presents, Session!Renewing, Session!Ending, Session!Underway
  <1>17. \A d \in Calls : ~Presents(d, s)
    BY <1>12 DEF Presents, Session!Renewing, Session!Ending
  <1>18. NewOK'
    <2> SUFFICES ASSUME NEW d \in Calls, call'[d].new # None
                 PROVE  /\ cookie.refresh # call'[d].new
                        /\ \A e \in Calls : ~Presents(e, call[d].new)'
                        /\ \A e \in Calls \ {d} : call'[e].new # call'[d].new
      BY <1>3 DEF NewOK
    <2>1. \A e \in Calls, x \in Sids :
             x = call'[d].new /\ ~Presents(e, x) => ~Presents(e, call[d].new)'
      BY <1>16
    <2>2. CASE d = c
      BY <1>5, <1>12, <1>17, <2>1, <2>2
    <2>3. CASE d # c
      <3>1. call'[d].new = call[d].new /\ call[d].new \in Sids
        BY <1>1, <1>5, <2>3 DEF PanelCall
      <3> QED BY <1>5, <1>12, <2>1, <2>3, <3>1 DEF NewOK
    <2> QED BY <2>2, <2>3
  <1>19. OnceOK'
    BY <1>3, <1>16 DEF OnceOK
  <1>20. HeldOK'
    <2> SUFFICES ASSUME marks' = {} PROVE HeldOK'
      BY DEF HeldOK
    <2>1. marks = {} /\ \A x \in Sids : Session!Live(x) => Session!Live(x)'
      BY <1>3, <1>10, <1>11
    <2>2. ASSUME NEW d \in Calls, call'[d].pc \in {"refreshing", "rotating"}
          PROVE  sessions'[call'[d].sid].state = "live"
      <3>1. call'[d] = call[d] /\ call[d].sid \in Sids
        BY <1>1, <1>5, <2>2 DEF CallsOK, CallOK, Renewals, PanelCall
      <3> QED BY <2>1, <2>2, <3>1 DEF HeldOK, Session!Live
    <2>3. ASSUME NEW d \in Calls, call'[d].new # None
          PROVE  sessions'[call'[d].new].state = "live"
      <3>1. CASE d = c
        BY <1>5, <1>8, <3>1
      <3>2. CASE d # c
        <4>1. call'[d] = call[d] /\ call[d].new \in Sids
          BY <1>1, <1>5, <2>3, <3>2 DEF PanelCall
        <4> QED BY <2>1, <2>3, <4>1 DEF HeldOK, Session!Live
      <3> QED BY <3>1, <3>2
    <2>4. cookie'.refresh # None =>
              \/ Session!Live(cookie.refresh)'
              \/ \E d \in Calls :
                    call'[d].pc = "refreshed" /\ call'[d].sid = cookie'.refresh
              \/ \E d \in Calls : Session!Ending(d, cookie.refresh)'
      <3> SUFFICES ASSUME cookie.refresh # None
                   PROVE  \/ Session!Live(cookie.refresh)'
                          \/ \E d \in Calls :
                                call'[d].pc = "refreshed" /\ call'[d].sid = cookie.refresh
                          \/ \E d \in Calls : Session!Ending(d, cookie.refresh)'
        BY <1>3
      <3>1. cookie'.refresh = cookie.refresh /\ cookie.refresh \in Sids
        BY <1>3 DEF PanelTypes
      <3>2. CASE Session!Live(cookie.refresh)
        BY <2>1, <3>1, <3>2 DEF Session!Live
      <3>3. ASSUME NEW d \in Calls, call[d].pc = "refreshed", call[d].sid = cookie.refresh
            PROVE  call'[d].pc = "refreshed" /\ call'[d].sid = cookie.refresh
        BY <1>1, <1>5, <3>3
      <3>4. ASSUME NEW d \in Calls, Session!Ending(d, cookie.refresh)
            PROVE  Session!Ending(d, cookie.refresh)'
        BY <1>1, <1>5, <3>1, <3>4 DEF Session!Ending, Session!Underway
      <3> QED BY <2>1, <3>2, <3>3, <3>4 DEF HeldOK
    <2> QED BY <2>2, <2>3, <2>4 DEF HeldOK, Session!Live
  <1>21. \A x \in Sids \ {s} : InHand(x)' => InHand(x)
    BY <1>3, <1>5, <1>10, <1>16 DEF InHand
  <1>22. TipOK'
    <2> SUFFICES ASSUME Clean', NEW x \in Sids, NEW u \in Sids, Known(x)',
                        Session!Root(x)' = Session!Root(u)',
                        InHand(x)', InHand(u)', x # u
                 PROVE  \E d \in Calls : Swaps(d, x, u)'
      BY DEF TipOK
    <2>1. x # s /\ u # s
      BY <1>10, <1>11, <1>12
    <2>2. Clean /\ Known(x) /\ Session!Root(x) = Session!Root(u) /\ InHand(x) /\ InHand(u)
      BY <1>3, <1>10, <1>21, <2>1 DEF Clean
    <2>3. PICK d \in Calls : Swaps(d, x, u)
      BY <2>2 DEF TipOK
    <2>4. d # c
      BY <1>1, <2>3 DEF Swaps
    <2> QED BY <1>5, <2>3, <2>4 DEF Swaps
  <1>23. EndedOK'
    <2> SUFFICES ASSUME NEW d \in Calls,
                        \/ (call'[d].op = "logout" /\ call'[d].pc = "ok")
                        \/ call'[d].pc = "refreshed"
                 PROVE  sessions'[call'[d].sid].state # "live"
      BY DEF EndedOK, Session!Live
    <2>1. call'[d] = call[d] /\ call[d].sid \in Sids \ {s}
      BY <1>1, <1>5, <1>12 DEF CallsOK, CallOK, Renewals, PanelCall
    <2> QED BY <1>10, <2>1 DEF EndedOK, Session!Live
  <1>24. GoneOK'
    <2> SUFFICES ASSUME NEW x \in Sids, Known(x)', Session!Root(x)' \in signedOut'
                 PROVE  /\ ~Session!Live(x)' /\ cookie'.refresh # x
                        /\ \A d \in Calls : /\ call'[d].new # x
                                            /\ ~(call'[d].pc = "rotating" /\ call'[d].sid = x)
      BY DEF GoneOK
    <2>1. x # s
      BY <1>3, <1>11, <1>12
    <2>2. Known(x) /\ Session!Root(x) \in signedOut
      BY <1>3, <1>10, <2>1
    <2>3. ~Session!Live(x) /\ cookie.refresh # x
      BY <2>2 DEF GoneOK
    <2>4. ASSUME NEW d \in Calls
          PROVE  call'[d].new # x /\ ~(call'[d].pc = "rotating" /\ call'[d].sid = x)
      BY <1>5, <2>1, <2>2 DEF GoneOK
    <2> QED BY <1>3, <1>10, <2>1, <2>3, <2>4
  <1> QED BY <1>9, <1>13, <1>14, <1>15, <1>18, <1>19, <1>20, <1>22, <1>23, <1>24

\* A refresh: the new session takes the place of the old one, in the same hands.
LEMMA RotateStep ==
    ASSUME PanelInv, NEW c \in Calls, Session!Rotate(c)
    PROVE  PanelInv'
  <1> USE DEF PanelInv
  <1> DEFINE R == [state : {"none", "live", "revoked"}, root : Sids \cup {None}]
  <1>1. /\ call \in [Calls -> PanelCall] /\ CallOK(call[c]) /\ call[c].pc = "rotating"
        /\ call[c].op # "logout" /\ call[c].new = None /\ call[c].sid \in Sids
        /\ sessions \in [Sids -> R]
    BY DEF PanelTypes, CallsOK, CallOK, Session!Rotate, PanelCall, Renewals
  <1>2. PICK o \in Sids : o = call[c].sid
    BY <1>1
  <1>3. PICK s \in Sids :
           /\ sessions[s].state = "none"
           /\ sessions' = [sessions EXCEPT ![s] = [state |-> "live", root |-> Session!Root(o)],
                                           ![o].state = "revoked"]
           /\ fresh' = fresh \cup {s}
           /\ Session!AnswerWith(c, "refreshed", s)
    BY <1>2 DEF Session!Rotate
  <1>4. UNCHANGED <<cookie, tab, marks, signedOut>>
    BY DEF Session!Rotate, Session!history
  <1>5. /\ call'[c].pc = "refreshed" /\ call'[c].new = s /\ call'[c].sid = o
        /\ call'[c].op = call[c].op /\ call'[c].heard = call[c].heard
        /\ \A d \in Calls \ {c} : call'[d] = call[d]
        /\ call' \in [Calls -> PanelCall]
    BY <1>1, <1>2, <1>3, AnswerTyped DEF Session!AnswerWith
  <1>6. Known(o) /\ ~Known(s) /\ s # o /\ Session!Root(o) \in Sids /\ Known(Session!Root(o))
    BY <1>1, <1>2, <1>3, PanelConstants DEF KnownOK, Known, Session!Root
  <1> DEFINE n == [state |-> "live", root |-> Session!Root(o)]
             w == [sessions[o] EXCEPT !.state = "revoked"]
  <1>7. /\ n \in R /\ n.state = "live" /\ n.root = Session!Root(o)
        /\ w \in R /\ w.state = "revoked" /\ w.root = Session!Root(o)
    BY <1>1, <1>6 DEF Session!Root
  <1>8. sessions' = [[sessions EXCEPT ![s] = n] EXCEPT ![o] = w]
    BY <1>1, <1>3, <1>6
  <1>9. /\ sessions' \in [Sids -> R] /\ sessions'[s] = n /\ sessions'[o] = w
        /\ \A x \in Sids \ {s, o} : sessions'[x] = sessions[x]
    <2> HIDE DEF n, w, R
    <2> QED BY <1>1, <1>6, <1>7, <1>8
  <1> HIDE DEF n, w
  <1>10. PanelTypes'
    BY <1>3, <1>4, <1>5, <1>9 DEF PanelTypes
  <1>11. \A x \in Sids \ {s} : /\ Known(x)' <=> Known(x)
                               /\ Session!Root(x)' = Session!Root(x)
                               /\ Session!Live(x)' => Session!Live(x)
                               /\ x # o => (Session!Live(x)' <=> Session!Live(x))
    BY <1>6, <1>7, <1>9 DEF Known, Session!Root, Session!Live
  <1>12. /\ Known(s)' /\ Session!Root(s)' = Session!Root(o) /\ Session!Live(s)'
         /\ ~Session!Live(o)'
    BY <1>6, <1>7, <1>9 DEF Known, Session!Root, Session!Live
  <1>13. /\ cookie.refresh # s /\ cookie.access # s /\ s \notin signedOut /\ s # None
         /\ \A d \in Calls : call[d].sid # s /\ call[d].new # s
         /\ \A x \in Sids : Session!Root(x) # s
    BY <1>6, PanelConstants DEF KnownOK
  <1>14. CallsOK' /\ Session!RefusedForCause'
    <2>1. CallOK(call'[c])
      BY <1>1, <1>2, <1>5, <1>13, PanelConstants DEF CallOK, Renewals
    <2> QED BY <1>4, <1>5, <2>1 DEF CallsOK, Session!RefusedForCause
  <1>15. LostOK'
    <2>1. Heard(call[c]) => Heard(call'[c])
      BY <1>1, <1>5 DEF Heard, Renewals
    <2> QED BY <1>4, <1>5, <2>1 DEF LostOK
  <1>16. KnownOK'
    <2>1. \A x \in {cookie.refresh, cookie.access} \ {None} : x \in Sids \ {s} /\ Known(x)
      BY <1>13 DEF KnownOK, PanelTypes
    <2>2. \A d \in Calls : \A x \in {call'[d].sid, call'[d].new} \ {None} :
             x \in Sids /\ (x = s \/ Known(x))
      BY <1>1, <1>5, <1>6 DEF KnownOK, PanelCall
    <2>3. \A x \in signedOut : x \in Sids \ {s} /\ Known(x)
      BY <1>13 DEF KnownOK, PanelTypes
    <2>4. \A x \in Sids :
             Known(x) => Session!Root(x) \in Sids \ {s} /\ Known(Session!Root(x))
      BY <1>13 DEF KnownOK, PanelTypes, Session!Root
    <2>5. \A x \in Sids :
             /\ (Known(x) <=> Session!Root(x) # None)
             /\ (Known(x)' <=> Session!Root(x)' # None)
      BY <1>6, <1>11, <1>12, PanelConstants DEF KnownOK
    <2>6. \A x \in Sids : Known(x)' => Known(Session!Root(x))'
      <3> SUFFICES ASSUME NEW x \in Sids, Known(x)' PROVE Known(Session!Root(x))'
        OBVIOUS
      <3>1. PICK y \in Sids \ {s} : Session!Root(x)' = y /\ Known(y)
        BY <1>6, <1>11, <1>12, <1>13, <2>4
      <3>2. Known(y)'
        BY <1>11, <3>1
      <3> QED BY <3>1, <3>2 DEF Known
    <2>7. \A x \in Sids : x = s \/ Known(x) => Known(x)'
      BY <1>11, <1>12
    <2> QED BY <1>4, <2>1, <2>2, <2>3, <2>5, <2>6, <2>7 DEF KnownOK
  <1>17. \A d \in Calls, x \in Sids : Presents(d, x)' <=> Presents(d, x)
    BY <1>1, <1>2, <1>5 DEF Presents, Session!Renewing, Session!Ending, Session!Underway
  <1>18. \A d \in Calls : ~Presents(d, s)
    BY <1>13 DEF Presents, Session!Renewing, Session!Ending
  <1>19. Presents(c, o) /\ \A d \in Calls : call[d].new # o
    <2>1. Presents(c, o)
      BY <1>1, <1>2 DEF Presents, Session!Renewing
    <2> QED BY <1>13, <2>1, PanelConstants DEF NewOK
  <1>20. NewOK'
    <2> SUFFICES ASSUME NEW d \in Calls, call'[d].new # None
                 PROVE  /\ cookie.refresh # call'[d].new
                        /\ \A e \in Calls : ~Presents(e, call[d].new)'
                        /\ \A e \in Calls \ {d} : call'[e].new # call'[d].new
      BY <1>4 DEF NewOK
    <2>1. \A e \in Calls, x \in Sids :
             x = call'[d].new /\ ~Presents(e, x) => ~Presents(e, call[d].new)'
      BY <1>17
    <2>2. CASE d = c
      BY <1>5, <1>13, <1>18, <2>1, <2>2
    <2>3. CASE d # c
      <3>1. call'[d].new = call[d].new /\ call[d].new \in Sids
        BY <1>1, <1>5, <2>3 DEF PanelCall
      <3> QED BY <1>5, <1>13, <2>1, <2>3, <3>1 DEF NewOK
    <2> QED BY <2>2, <2>3
  <1>21. OnceOK'
    BY <1>4, <1>17 DEF OnceOK
  <1>22. HeldOK'
    <2> SUFFICES ASSUME marks' = {} PROVE HeldOK'
      BY DEF HeldOK
    <2>1. marks = {} /\ \A x \in Sids \ {o} : Session!Live(x) => Session!Live(x)'
      BY <1>4, <1>11, <1>12
    <2>2. ASSUME NEW d \in Calls, call'[d].pc \in {"refreshing", "rotating"}
          PROVE  sessions'[call'[d].sid].state = "live"
      <3>1. d # c /\ call'[d] = call[d] /\ call[d].sid \in Sids
        BY <1>1, <1>5, <2>2 DEF CallsOK, CallOK, Renewals, PanelCall
      <3>2. Presents(d, call[d].sid)
        BY <2>2, <3>1 DEF Presents, Session!Renewing
      <3>3. call[d].sid # o
        BY <1>19, <2>1, <3>1, <3>2 DEF OnceOK
      <3> QED BY <2>1, <2>2, <3>1, <3>3 DEF HeldOK, Session!Live
    <2>3. ASSUME NEW d \in Calls, call'[d].new # None
          PROVE  sessions'[call'[d].new].state = "live"
      <3>1. CASE d = c
        BY <1>5, <1>7, <1>9, <3>1
      <3>2. CASE d # c
        <4>1. call'[d] = call[d] /\ call[d].new \in Sids \ {o}
          BY <1>1, <1>5, <1>19, <2>3, <3>2 DEF PanelCall
        <4> QED BY <2>1, <2>3, <4>1 DEF HeldOK, Session!Live
      <3> QED BY <3>1, <3>2
    <2>4. cookie'.refresh # None =>
              \/ Session!Live(cookie.refresh)'
              \/ \E d \in Calls :
                    call'[d].pc = "refreshed" /\ call'[d].sid = cookie'.refresh
              \/ \E d \in Calls : Session!Ending(d, cookie.refresh)'
      <3> SUFFICES ASSUME cookie.refresh # None
                   PROVE  \/ Session!Live(cookie.refresh)'
                          \/ \E d \in Calls :
                                call'[d].pc = "refreshed" /\ call'[d].sid = cookie.refresh
                          \/ \E d \in Calls : Session!Ending(d, cookie.refresh)'
        BY <1>4
      <3>1. cookie'.refresh = cookie.refresh /\ cookie.refresh \in Sids
        BY <1>4 DEF PanelTypes
      <3>2. CASE cookie.refresh = o
        BY <1>5, <3>2
      <3>3. CASE Session!Live(cookie.refresh) /\ cookie.refresh # o
        BY <2>1, <3>1, <3>3 DEF Session!Live
      <3>4. ASSUME NEW d \in Calls, call[d].pc = "refreshed", call[d].sid = cookie.refresh
            PROVE  call'[d].pc = "refreshed" /\ call'[d].sid = cookie.refresh
        BY <1>1, <1>5, <3>4
      <3>5. ASSUME NEW d \in Calls, Session!Ending(d, cookie.refresh)
            PROVE  Session!Ending(d, cookie.refresh)'
        BY <1>1, <1>5, <3>1, <3>5 DEF Session!Ending, Session!Underway
      <3> QED BY <2>1, <3>2, <3>3, <3>4, <3>5 DEF HeldOK
    <2> QED BY <2>2, <2>3, <2>4 DEF HeldOK, Session!Live
  <1>23. \A x \in Sids \ {s} : InHand(x)' => InHand(x)
    BY <1>4, <1>5, <1>11, <1>17 DEF InHand
  <1>24. ASSUME Clean', NEW x \in Sids, x # s, Session!Root(x)' = Session!Root(o),
                InHand(x)'
         PROVE  Swaps(c, s, x)'
    <2>1. /\ Clean /\ "raced" \notin marks /\ Session!Root(x) = Session!Root(o)
          /\ InHand(x) /\ InHand(o)
      BY <1>4, <1>11, <1>19, <1>23, <1>24 DEF Clean, InHand
    <2>2. CASE x = o
      BY <1>5, <2>2 DEF Swaps
    <2>3. ASSUME x # o PROVE FALSE
      <3>1. PICK d \in Calls : Swaps(d, o, x)
        BY <1>6, <2>1, <2>3 DEF TipOK
      <3>2. call[d].sid = o /\ d # c
        BY <1>1, <1>19, <3>1 DEF Swaps
      <3> QED BY <1>19, <2>1, <3>1, <3>2 DEF Swaps, OnceOK, Presents, Session!Renewing
    <2> QED BY <2>2, <2>3
  <1>25. TipOK'
    <2> SUFFICES ASSUME Clean', NEW x \in Sids, NEW u \in Sids, Known(x)',
                        Session!Root(x)' = Session!Root(u)',
                        InHand(x)', InHand(u)', x # u
                 PROVE  \E d \in Calls : Swaps(d, x, u)'
      BY DEF TipOK
    <2>1. CASE x = s
      BY <1>12, <1>24, <2>1
    <2>2. CASE u = s
      <3>1. Swaps(c, s, x)'
        BY <1>12, <1>24, <2>2
      <3> QED BY <2>2, <3>1 DEF Swaps
    <2>3. CASE x # s /\ u # s
      <3>1. Clean /\ Known(x) /\ Session!Root(x) = Session!Root(u) /\ InHand(x) /\ InHand(u)
        BY <1>4, <1>11, <1>23, <2>3 DEF Clean
      <3>2. PICK d \in Calls : Swaps(d, x, u)
        BY <3>1 DEF TipOK
      <3>3. d # c
        BY <1>1, <3>2 DEF Swaps
      <3> QED BY <1>5, <3>2, <3>3 DEF Swaps
    <2> QED BY <2>1, <2>2, <2>3
  <1>26. EndedOK'
    <2> SUFFICES ASSUME NEW d \in Calls,
                        \/ (call'[d].op = "logout" /\ call'[d].pc = "ok")
                        \/ call'[d].pc = "refreshed"
                 PROVE  sessions'[call'[d].sid].state # "live"
      BY DEF EndedOK, Session!Live
    <2>1. CASE d = c
      BY <1>5, <1>7, <1>9, <2>1
    <2>2. CASE d # c
      <3>1. call'[d] = call[d] /\ call[d].sid \in Sids \ {s}
        BY <1>1, <1>5, <1>13, <2>2 DEF CallsOK, CallOK, Renewals, PanelCall
      <3> QED BY <1>11, <3>1 DEF EndedOK, Session!Live
    <2> QED BY <2>1, <2>2
  <1>27. GoneOK'
    <2> SUFFICES ASSUME NEW x \in Sids, Known(x)', Session!Root(x)' \in signedOut'
                 PROVE  /\ ~Session!Live(x)' /\ cookie'.refresh # x
                        /\ \A d \in Calls : /\ call'[d].new # x
                                            /\ ~(call'[d].pc = "rotating" /\ call'[d].sid = x)
      BY DEF GoneOK
    <2>1. x # s
      BY <1>1, <1>2, <1>4, <1>6, <1>12 DEF GoneOK
    <2>2. Known(x) /\ Session!Root(x) \in signedOut
      BY <1>4, <1>11, <2>1
    <2>3. ~Session!Live(x) /\ cookie.refresh # x
      BY <2>2 DEF GoneOK
    <2>4. ASSUME NEW d \in Calls
          PROVE  call'[d].new # x /\ ~(call'[d].pc = "rotating" /\ call'[d].sid = x)
      BY <1>5, <2>1, <2>2 DEF GoneOK
    <2> QED BY <1>4, <1>11, <2>1, <2>3, <2>4
  <1> QED BY <1>10, <1>14, <1>15, <1>16, <1>20, <1>21, <1>22, <1>25, <1>26, <1>27

\* What a call got goes into the cookies: what it was got for is in no hands now.
LEMMA StoreStep ==
    ASSUME PanelInv, PanelTypes', NEW c \in Calls, call[c].new # None,
           cookie' = Session!Tokens(call[c].new), UNCHANGED <<sessions, marks, signedOut>>,
           \A d \in Calls \ {c} : call'[d] = call[d],
           CallOK(call'[c]), Heard(call'[c]), call'[c].new = None,
           call'[c].sid \in {call[c].new, None},
           call'[c].pc \in {"sent", "idle"}, call'[c].op = "logout" => call'[c].pc = "idle"
    PROVE  PanelInv'
  <1> USE DEF PanelInv
  <1>1. PICK n \in Sids : n = call[c].new
    BY DEF PanelTypes, PanelCall
  <1>2. /\ cookie'.refresh = n /\ cookie'.access = n /\ Known(n)
        /\ "raced" \notin marks => \A d, e \in Calls, x \in Sids :
              Presents(d, x) /\ Presents(e, x) => d = e
    BY <1>1 DEF Session!Tokens, KnownOK, OnceOK
  <1>3. CallsOK' /\ LostOK' /\ Session!RefusedForCause'
    BY DEF CallsOK, LostOK, Session!RefusedForCause
  <1>4. KnownOK'
    <2>1. \A x \in Sids : (Known(x) <=> Known(x)') /\ Session!Root(x)' = Session!Root(x)
      BY DEF Known, Session!Root
    <2>2. \A d \in Calls :
             \A x \in {call'[d].sid, call'[d].new} \ {None} : x \in Sids /\ Known(x)
      BY <1>1, <1>2 DEF KnownOK, PanelTypes, PanelCall
    <2>3. \A x \in signedOut : x \in Sids /\ Known(x)
      BY DEF KnownOK, PanelTypes
    <2>4. \A x \in Sids : Known(x) => Session!Root(x) \in Sids
      BY DEF KnownOK, PanelTypes, Session!Root
    <2> QED BY <1>2, <2>1, <2>2, <2>3, <2>4 DEF KnownOK
  <1>5. \A d \in Calls, x \in Sids : Presents(d, x)' => d # c /\ Presents(d, x)
    BY DEF Presents, Session!Renewing, Session!Ending, Session!Underway
  <1>6. \A d \in Calls : call'[d].new # None =>
           /\ d # c /\ call'[d].new = call[d].new /\ call[d].new \in Sids /\ call[d].new # n
    BY <1>1 DEF PanelTypes, PanelCall, NewOK
  <1>7. NewOK'
    BY <1>2, <1>5, <1>6 DEF NewOK
  <1>8. OnceOK'
    BY <1>5 DEF OnceOK
  <1>9. HeldOK'
    BY <1>1, <1>2 DEF HeldOK, Session!Live
  <1>10. \A x \in Sids : InHand(x)' => InHand(x)
    BY <1>1, <1>2, <1>5, <1>6, PanelConstants DEF InHand, Session!Live
  <1>11. TipOK'
    <2> SUFFICES ASSUME Clean', NEW x \in Sids, NEW u \in Sids, Known(x)',
                        Session!Root(x)' = Session!Root(u)',
                        InHand(x)', InHand(u)', x # u
                 PROVE  \E d \in Calls : Swaps(d, x, u)'
      BY DEF TipOK
    <2>1. Clean /\ Known(x) /\ Session!Root(x) = Session!Root(u) /\ InHand(x) /\ InHand(u)
      BY <1>10 DEF Clean, Known, Session!Root
    <2>2. PICK d \in Calls : Swaps(d, x, u)
      BY <2>1 DEF TipOK
    <2>3. ASSUME d = c PROVE FALSE
      <3>1. PICK o \in {x, u} : o = call[c].sid /\ o # n /\ call[c].pc = "refreshed"
        BY <1>1, <2>2, <2>3 DEF Swaps
      <3>2. InHand(o)' /\ o \in Sids /\ Presents(c, o) /\ ~Session!Live(o)
        BY <3>1 DEF Presents, Session!Renewing, EndedOK
      <3>3. \A e \in Calls : ~Presents(e, o)'
        BY <1>2, <1>5, <2>1, <3>2 DEF Clean
      <3>4. \A e \in Calls : call'[e].new # o
        BY <1>6, <3>2, PanelConstants DEF NewOK
      <3> QED BY <1>2, <3>1, <3>2, <3>3, <3>4 DEF InHand, Session!Live
    <2> QED BY <2>2, <2>3 DEF Swaps
  <1>12. EndedOK'
    BY DEF EndedOK, Session!Live
  <1>13. GoneOK'
    BY <1>1, <1>2, PanelConstants DEF GoneOK, Known, Session!Root, Session!Live
  <1> QED BY <1>3, <1>4, <1>7, <1>8, <1>9, <1>11, <1>12, <1>13

LEMMA StoredStep ==
    ASSUME PanelInv, NEW c \in Calls, Session!Refreshed(c) \/ Session!SignedIn(c)
    PROVE  PanelInv'
  <1> USE DEF PanelInv
  <1>1. call \in [Calls -> PanelCall] /\ call[c] \in PanelCall /\ CallOK(call[c])
    BY DEF PanelTypes, CallsOK
  <1>2. /\ call[c].new # None /\ call[c].new \in Sids
        /\ cookie' = Session!Tokens(call[c].new)
        /\ UNCHANGED <<sessions, fresh, marks, signedOut>>
        /\ tab' \in [PanelTabs -> {"login", "panel"}]
    BY <1>1
       DEF CallOK, PanelCall, Session!Refreshed, Session!SignedIn, Session!history,
           PanelTypes
  <1>3. cookie' \in [access : Sids \cup {None}, refresh : Sids \cup {None}]
    BY <1>2 DEF Session!Tokens
  <1>4. CASE Session!SignedIn(c)
    <2>1. /\ call'[c] = Session!NoCall /\ \A d \in Calls \ {c} : call'[d] = call[d]
          /\ call' \in [Calls -> PanelCall]
      BY <1>1, <1>4, IdleTyped DEF Session!SignedIn, Session!Idle
    <2>2. PanelTypes'
      BY <1>2, <1>3, <2>1 DEF PanelTypes
    <2>3. /\ Session!NoCall.new = None /\ Session!NoCall.sid = None
          /\ Session!NoCall.pc = "idle"
      BY DEF Session!NoCall
    <2>4. CallOK(call'[c]) /\ Heard(call'[c])
      BY <2>1, IdleTyped
    <2> QED BY <1>2, <2>1, <2>2, <2>3, <2>4, StoreStep
  <1>5. CASE Session!Refreshed(c)
    <2> DEFINE q == [[[[call[c] EXCEPT !.pc = "sent"] EXCEPT !.sid = call[c].new]
                        EXCEPT !.new = None] EXCEPT !.again = TRUE]
    <2>1. /\ q.pc = "sent" /\ q.sid = call[c].new /\ q.new = None /\ q.op = call[c].op
          /\ q.heard /\ q \in PanelCall
      BY <1>1, <1>2, <1>5 DEF PanelCall, Session!Refreshed
    <2>2. call' = [call EXCEPT ![c] = q]
      BY <1>1, <1>5 DEF Session!Refreshed
    <2>3. call[c].op # "logout"
      BY <1>1, <1>5 DEF CallOK, Session!Refreshed
    <2> HIDE DEF q
    <2>4. /\ call'[c] = q /\ (\A d \in Calls \ {c} : call'[d] = call[d])
          /\ call' \in [Calls -> PanelCall]
      BY <1>1, <2>1, <2>2
    <2>5. PanelTypes'
      BY <1>2, <1>3, <2>4 DEF PanelTypes
    <2>6. CallOK(q) /\ Heard(q)
      BY <2>1, <2>3 DEF CallOK, Heard, Renewals
    <2> QED BY <1>2, <2>1, <2>3, <2>4, <2>5, <2>6, StoreStep
  <1> QED BY <1>4, <1>5

-----------------------------------------------------------------------------
(* The invariant *)

LEMMA PanelStarts == Session!Init => PanelInv
  <1> SUFFICES ASSUME Session!Init PROVE PanelInv
    OBVIOUS
  <1>1. /\ cookie.access = None /\ cookie.refresh = None
        /\ \A c \in Calls : call[c] = Session!NoCall
        /\ \A s \in Sids : sessions[s].state = "none" /\ sessions[s].root = None
        /\ marks = {} /\ signedOut = {}
    BY DEF Session!Init, Session!NoTokens, Session!Absent
  <1>2. PanelTypes
    BY IdleTyped DEF Session!Init, PanelTypes, Session!NoTokens, Session!Absent
  <1>3. \A c \in Calls :
           /\ call[c].pc = "idle" /\ call[c].sid = None /\ call[c].new = None
           /\ call[c].heard
    BY <1>1 DEF Session!NoCall
  <1>4. CallsOK /\ LostOK /\ Session!RefusedForCause
    BY <1>1, <1>3, IdleTyped DEF CallsOK, LostOK, Session!RefusedForCause
  <1>5. KnownOK
    BY <1>1, <1>3 DEF KnownOK, Known, Session!Root
  <1>6. \A c \in Calls, s \in Sids : ~Presents(c, s)
    BY <1>3 DEF Presents, Session!Renewing, Session!Ending, Session!Underway
  <1>7. NewOK /\ OnceOK /\ HeldOK /\ EndedOK /\ GoneOK
    BY <1>1, <1>3, <1>6 DEF NewOK, OnceOK, HeldOK, EndedOK, GoneOK, Known
  <1>8. TipOK
    BY <1>1 DEF TipOK, Known
  <1> QED BY <1>2, <1>4, <1>5, <1>7, <1>8 DEF PanelInv

LEMMA PanelNext == PanelInv /\ [Session!Next]_(Session!vars) => PanelInv'
  <1> SUFFICES ASSUME PanelInv, [Session!Next]_(Session!vars) PROVE PanelInv'
    OBVIOUS
  <1>1. CASE UNCHANGED Session!vars
    <2>1. UNCHANGED <<cookie, tab, call, sessions, fresh, marks, signedOut>>
      BY <1>1 DEF Session!vars
    <2>2. PanelTypes'
      BY <2>1 DEF PanelInv, PanelTypes
    <2>3. \A d \in Calls : Fits(d)
      BY <2>1, SameFits
    <2> QED BY <2>1, <2>2, <2>3, SameRows, SameEnds, ShrinkKeeps
  <1>2. ASSUME NEW t \in PanelTabs, Session!Open(t) PROVE PanelInv'
    BY <1>2, PanelOpens
  <1>3. ASSUME NEW t \in PanelTabs, NEW c \in Calls, Session!Page(t, c) PROVE PanelInv'
    BY <1>3, SendStep, LeavesStep DEF Session!Page
  <1>4. ASSUME NEW c \in Calls, Session!Server(c) PROVE PanelInv'
    BY <1>4, ServeStep, IssueStep, LogoutStep, RefreshStep, RotateStep
       DEF Session!Server
  <1>5. ASSUME NEW c \in Calls, Session!Client(c) PROVE PanelInv'
    <2>1. CASE Session!Unauthorized(c)
      BY <2>1, EndStep, RenewStep
    <2>2. CASE Session!AllClosed(c)
      BY <2>2, EndStep, LeavesStep
    <2>3. CASE Session!Refreshed(c) \/ Session!SignedIn(c)
      BY <2>3, StoredStep
    <2>4. CASE Session!Refused(c) \/ Session!Ends(c) \/ Session!Dropped(c)
      BY <2>4, EndStep
    <2>5. CASE Session!SignedOut(c) \/ Session!ConnectionLost(c)
      BY <2>5, SignedOutStep, ConnectionStep
    <2> QED BY <1>5, <2>1, <2>2, <2>3, <2>4, <2>5 DEF Session!Client
  <1>6. ASSUME NEW s \in Sids, Session!ExpireAccess(s) PROVE PanelInv'
    BY <1>6, ExpireStep
  <1> QED BY <1>1, <1>2, <1>3, <1>4, <1>5, <1>6 DEF Session!Next

\* The invariant, of the component and of the part in the site.
LEMMA PanelAlways ==
    /\ Session!Spec => []PanelInv
    /\ SiteSpec => [](part = "panel" => PanelInv)
  <1> DEFINE Inv == part = "panel" => PanelInv
  <1>1. Session!Spec => []PanelInv
    BY PanelStarts, PanelNext, PTL DEF Session!Spec
  <1>2. SiteInit => Inv
    BY PanelStarts DEF SiteInit
  <1>3. Inv /\ [SiteNext]_SiteVars => Inv'
    BY PanelNext, SessionMoves
  <1>4. SiteSpec => []Inv
    BY <1>2, <1>3, PTL DEF SiteSpec
  <1> QED
    BY <1>1, <1>4

\* A refresh is refused only after two calls renewed or ended one session at once,
\* an answer was lost or the user closed every session (client.ts:25-28,
\* refresh-sessions.service.ts:75-83).
THEOREM RefusalsHaveCause ==
    /\ Session!Spec => []Session!RefusedForCause
    /\ SiteSpec => []RefusedForCause
  <1>1. PanelInv => Session!RefusedForCause
    BY DEF PanelInv
  <1>2. (part = "panel" => PanelInv) => RefusedForCause
    BY <1>1 DEF RefusedForCause
  <1> QED
    BY <1>1, <1>2, PanelAlways, PTL

\* After a logout that no refresh crossed nothing of its sign-in lives, in the table
\* or in the cookies, and nothing brings it back (auth-provider.tsx:47-61).
THEOREM LogoutEnds ==
    /\ Session!Spec => []Session!LogoutEndsTheSignIn
    /\ SiteSpec => []LogoutEndsTheSignIn
  <1>1. PanelInv => Session!LogoutEndsTheSignIn
    <2> SUFFICES ASSUME PanelInv, NEW s \in Sids, Session!Root(s) \in signedOut
                 PROVE  ~Session!Live(s) /\ cookie.refresh # s
      BY DEF Session!LogoutEndsTheSignIn
    <2>1. Session!Root(s) # None
      BY PanelConstants DEF PanelInv, PanelTypes
    <2> QED BY <2>1 DEF PanelInv, KnownOK, GoneOK
  <1>2. (part = "panel" => PanelInv) => LogoutEndsTheSignIn
    BY <1>1 DEF LogoutEndsTheSignIn
  <1> QED
    BY <1>1, <1>2, PanelAlways, PTL

\* The cookies, the calls and the sessions keep their types.
LEMMA SessionTyped == SiteSpec => [](part = "panel" => Session!TypeOK)
  <1>1. PanelInv => Session!TypeOK
    <2> SUFFICES ASSUME PanelInv PROVE Session!TypeOK
      OBVIOUS
    <2>1. \A c \in Calls :
             Session!Underway(c) /\ call[c].op = "logout" => call[c].sid # None
      BY DEF PanelInv, CallsOK, CallOK, Session!Underway
    <2> QED BY <2>1 DEF PanelInv, PanelTypes, PanelCall, Session!TypeOK
  <1> QED
    BY <1>1, PanelAlways, PTL

-----------------------------------------------------------------------------
(* Every part *)

\* Whatever part of the site is in play, its pages, its requests and its cookies
\* keep their types.
THEOREM EveryPageIsTyped == SiteSpec => []TypesOK
  BY WizardTyped, BookingsTyped, SessionTyped, PTL DEF TypesOK

=============================================================================
