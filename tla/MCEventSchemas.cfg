SPECIFICATION Spec
CONSTANTS
  Contracts <- MCContracts
  Int32Max = 1
  MaxFieldNumber = 6
  ReservedNumbers = {4}
  Alphabet <- MCAlphabet
  Uppercase <- MCUppercase
  None = None
INVARIANTS AvroMeansThePayload ProtobufMeansThePayload
PROPERTY ProtobufIgnoresOrder
