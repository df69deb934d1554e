SPECIFICATION BSpec
CONSTANTS
    phone = phone  laptop = laptop
    alice = alice  notes = notes  x = x
    Clients = {phone, laptop}
    Actor <- Alice
    Registered = {}
    Own <- Owned
    Ids = {x}
    Colls = {notes}
    Place <- InNotes
    Watched <- Notes
    Nobody = Nobody
    MaxWatchers = 1
    MaxToggles <- Toggles
    Authors <- Each
    MaxDials <- Dials
INVARIANTS
    BTypeOK
    Agree
    SubscribedAsWatched
PROPERTY
    EventuallyAgree
CHECK_DEADLOCK FALSE
