SPECIFICATION Spec
CONSTANTS
  q1 = q1
  q2 = q2
  Request = {q1, q2}
  MaxFiles = 2
SYMMETRY Symmetry
INVARIANTS CheckedWasSeen CertificateOpens FreshUploadSurvives
PROPERTY NoStrayCertificate
