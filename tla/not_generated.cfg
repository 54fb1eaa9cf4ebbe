SPECIFICATION BootSpec
CONSTANTS
    Names = {admin, other}
    AdminName = admin
    MaxToken = 4
    MaxChange = 2
    None = None
INVARIANTS FirstIsGenerated
