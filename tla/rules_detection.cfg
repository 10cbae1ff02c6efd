SPECIFICATION Spec
CONSTANTS
    t1 = t1  t2 = t2  a = a  burst = burst  guess = guess  fan = fan
    Star = Star  NoValue = NoValue
    Tenants = {t1}
    Kinds <- MCKinds
    RuleIds = {burst, guess, fan}
    Definitions <- MCDefinitions
    DefaultPack <- MCDefaultPack
    Lag = 1  MailConfigured = TRUE
    MaxTime = 2  MaxEvents = 4  ReadCount = 2  EditedIds = {burst}  MaxUpsets = 1
INVARIANTS Backed TenantDisclosure
PROPERTY NoneMissed
CHECK_DEADLOCK FALSE
