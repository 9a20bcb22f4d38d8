--------------------------- MODULE MCClientCache ---------------------------
(* Instances of ClientCache.                                                *)
EXTENDS ClientCache, TLC

CONSTANTS v1, o1, o2, f1, f2, d1, q1

MCOrgs    == {o1}
MCOffices == {o1, o2}
MCFloors  == {f1, f2}
MCDates   == {d1}
MCFilters == {q1}

\* One list at a time.
MCPages == {v1 :> h : h \in DOMAIN Hooks}

MCWrites ==
    [createDeskBooking |-> createDeskBooking(f1), cancelDeskBooking |-> cancelDeskBooking(f1),
     cancelMyBooking |-> cancelMyBooking(f1), createRoomBooking |-> createRoomBooking(f1),
     cancelRoomBooking |-> cancelRoomBooking(f1), createDesk |-> createDesk(f1),
     updateDesk |-> updateDesk(f1), deleteDesk |-> deleteDesk(f1),
     updateLayoutObject |-> updateLayoutObject(f1), applyEnhancePlan |-> applyEnhancePlan(f1),
     undoEnhanceRun |-> undoEnhanceRun(f1), retryEnhanceRun |-> retryEnhanceRun(f1),
     createOffice |-> createOffice(o1), createFloor |-> createFloor(o1),
     updateFloor |-> updateFloor(o1), setFloorStatus |-> setFloorStatus(o1),
     acceptInvitation |-> acceptInvitation, createLayoutObject |-> createLayoutObject(f1),
     deleteLayoutObject |-> deleteLayoutObject(f1), createInvitation |-> createInvitation(o1),
     cancelInvitation |-> cancelInvitation(o1), resendInvitation |-> resendInvitation(o1),
     updateProfile |-> updateProfile, uploadAvatar |-> uploadAvatar,
     removeAvatar |-> removeAvatar]
============================================================================
