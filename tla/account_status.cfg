CONSTANTS
  unit1 = unit1
  unit2 = unit2
  admin1 = admin1
  admin2 = admin2
  request1 = request1
  request2 = request2
  Units = {unit1, unit2}
  Admins = {admin1, admin2}
  Registrations = {request1, request2}
  Codes = {"AccessDenied", "NoSuchRole"}
SPECIFICATION Spec
SYMMETRY Interchangeable
INVARIANTS
  TypeOK
  OneRegistration
PROPERTIES
  OnlyOlderUnitsReenable
