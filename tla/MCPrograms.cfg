SPECIFICATION Spec
CONSTANTS
    Calendars = {cdef, c1}
    Days = {ddef, d1}
    DefaultCalendar = cdef
    DefaultDays = ddef
INVARIANTS
    TypeOK
    DownloadAreaFree
    ActiveAsActivated
    ReservedAsReserved
PROPERTIES
    SurvivesReset
CONSTRAINT Bounds
VIEW View
