\* JSON-RPC dispatch: responses and the handler runs of up to two frames.
CONSTANTS
  mApi = mApi
  mSync = mSync
  mUnknown = mUnknown
  ApiMethods <- MCApiMethods
  NoApiMethods <- MCNoApiMethods
  OtherMethods <- MCOtherMethods
  MaxBatch = 2
SPECIFICATION Spec
CONSTRAINT CallsConstraint
INVARIANT TypeOK
INVARIANT ResultXorError
INVARIANT ControlErrorNoEffect
